---- MODULE Spec2Model ----
(***************************************************************************)
(* Verification model of the timbrature-pa time-accounting core:           *)
(*   - TimeEntry / WeekData          (js/models)                           *)
(*   - TimeCalculator                (js/services/TimeCalculator.js)      *)
(*   - StorageManager and its two adapters (js/storage)                    *)
(*   - AppController handlers        (js/controllers/AppController.js)    *)
(*                                                                         *)
(* Conventions                                                             *)
(*   - a time string "HH:MM" is the number HHMM ("08:00" is 800, "17:30"  *)
(*     is 1730); Null is JS null and Undef is JS undefined (a missing      *)
(*     field), both outside the range of times, hours and ids;             *)
(*   - `hours` values are kept in tenths of an hour (7.5 h = 75), so that  *)
(*     Math.round(hours * 60) is hours * 6;                                *)
(*   - a date key is the day of month of February 2026 (2026-02-02, the    *)
(*     Monday of 2026-W06, is 2; 2026-02-06, the Friday, is 6).            *)
(***************************************************************************)
EXTENDS Integers, Sequences, FiniteSets, TLC

VARIABLES
    entries,      \* WeekData.entries : date key -> sequence of TimeEntry
    wkLast,       \* the last WeekData call: operation and return value
    calcEntries,  \* calculateDayHours: the entries argument
    calcDate,     \* calculateDayHours: the dateKey argument
    calcResult,   \* calculateDayHours: the object returned
    util,         \* the last call of a stateless function: name, arguments, result
    bus,          \* EventBus: listeners, lastEmitted, and the runs of each callback
    modal,        \* ModalManager: activeModal, currentResolver, the promises handed out
    localStorage, \* window.localStorage: item key -> text
    idbWeeks,     \* IndexedDB store 'weeks'
    idbBackups,   \* IndexedDB store 'backups'
    now,          \* Date.now()
    session,      \* the StorageManager of the loaded page and its adapters' flags
    call,         \* the StorageManager call in progress
    last,         \* the last call that returned, with its result
    hist,         \* stores before the most recent write call; how it ended
    bkLog,        \* every backup record ever added
    ctl,          \* AppController: allData, currentWeekData, the last toast
    tasks,        \* the UI callbacks in progress
    txns          \* IndexedDB transactions on 'weeks' not yet finished

weekVars == <<entries, wkLast>>

calcVars == <<calcEntries, calcDate, calcResult, util, bus, modal>>

storeVars ==
    <<localStorage, idbWeeks, idbBackups, now, session, call, last, hist, bkLog>>

ctlVars == <<ctl, tasks, txns>>

vars ==
    <<entries, wkLast, calcEntries, calcDate, calcResult, util, bus, modal,
      localStorage, idbWeeks, idbBackups, now, session, call, last, hist, bkLog,
      ctl, tasks, txns>>

Null == -1
Undef == -2

\* no stateless function was called; new EventBus()
NoUtil == [name |-> "none"]

NoBus == [listeners |-> {}, lastEmitted |-> FALSE, runs |-> <<>>]

\* new ModalManager(): no modal is active and no resolver is kept; owner is the
\* open*Modal call the active modal belongs to, 0 for none
NoModal ==
    [activeModal |-> "none", owner |-> 0, currentResolver |-> 0, isOpen |-> {},
     promises |-> <<>>]

\* an entry type that was never set (JS undefined)
NoType == "undefined"

(***************************************************************************)
(* Bounds of the WeekData model                                            *)
(***************************************************************************)
\* largest number of entries alive in the week at once
MaxEntries == 2

\* date keys used by the operations: Thursday, Friday (keys of the week)
\* and Saturday (not a key after construction)
OpDates == {5, 6, 7}

\* time strings typed by the user: valid "08:00"; invalid "24:00"
RawTimes == {800, 2400}

\* hours supplied when building a special entry (Undef: not supplied)
RawHours == {Undef, 40}

(***************************************************************************)
(* Validators.js                                                           *)
(***************************************************************************)
VALID_ENTRY_TYPES == {"entrata", "uscita", "smart", "assente"}
TIME_REQUIRED_TYPES == {"entrata", "uscita"}
SPECIAL_TYPES == {"smart", "assente"}

\* /^([0-1]?[0-9]|2[0-3]):([0-5][0-9])$/
validateTime(time) ==
    /\ time \notin {Null, Undef}
    /\ time >= 0
    /\ (time \div 100) \in 0..23
    /\ (time % 100) \in 0..59

normalizeTime(time) == IF validateTime(time) THEN time ELSE Null

requiresTime(type) == type \in TIME_REQUIRED_TYPES

isSpecialType(type) == type \in SPECIAL_TYPES

parseTimeToMinutes(time) ==
    IF validateTime(time) THEN (time \div 100) * 60 + (time % 100) ELSE Null

(***************************************************************************)
(* DateUtils.js (restricted to February 2026)                              *)
(***************************************************************************)
\* parseDateISO(dateKey).getDay(): 2026-02-01 is a Sunday (0)
getDay(dateKey) == (dateKey - 1) % 7

isFriday(dateKey) == getDay(dateKey) = 5

\* getWorkWeekDates(2026, 6) formatted by formatDateISO
WorkWeekDates == {2, 3, 4, 5, 6}

(***************************************************************************)
(* TimeEntry.js                                                            *)
(***************************************************************************)
SMART_HOURS_DEFAULT == 75
SMART_HOURS_FRIDAY == 60
ABSENT_HOURS == 0

getDefaultHours(type, friday) ==
    IF type = "smart" THEN (IF friday THEN SMART_HOURS_FRIDAY ELSE SMART_HOURS_DEFAULT)
    ELSE IF type = "assente" THEN ABSENT_HOURS
    ELSE 0

\* new TimeEntry(data) with a generated id
NewTimeEntry(data, id) ==
    [id    |-> id,
     type  |-> data.type,
     time  |-> IF requiresTime(data.type) THEN normalizeTime(data.time) ELSE Null,
     hours |-> IF isSpecialType(data.type)
               THEN (IF data.hours \in {Null, Undef}
                     THEN getDefaultHours(data.type, FALSE)
                     ELSE data.hours)
               ELSE Null]

\* TimeEntry.update(updates)
EntryUpdate(e, updates) ==
    LET t1 == IF updates.type # NoType THEN updates.type ELSE e.type
        e1 == [e EXCEPT !.type = t1]
        e2 == IF updates.time # Undef /\ requiresTime(t1)
              THEN [e1 EXCEPT !.time = normalizeTime(updates.time)]
              ELSE e1
    IN  IF updates.hours # Undef /\ isSpecialType(t1)
        THEN [e2 EXCEPT !.hours = updates.hours]
        ELSE e2

\* TimeEntry.toJSON(): a missing field is Undef
EntryToJSON(e) ==
    [type  |-> e.type,
     time  |-> IF requiresTime(e.type) THEN e.time ELSE Undef,
     hours |-> IF e.hours # Null THEN e.hours ELSE Undef]

isSpecial(e) == isSpecialType(e.type)

isSmart(e) == e.type = "smart"

(***************************************************************************)
(* WeekData.js                                                             *)
(***************************************************************************)
\* the entries map after initializeWorkDays()
EmptyWeek == [d \in WorkWeekDates |-> <<>>]

getEntriesForDate(m, dateKey) ==
    IF dateKey \in DOMAIN m THEN m[dateKey] ELSE <<>>

clearDayKeep(m, dateKey) == m

clearDay(m, dateKey) ==
    IF dateKey \in DOMAIN m THEN [m EXCEPT ![dateKey] = <<>>] ELSE m

addEntryAsGiven(m, dateKey, timeEntry) ==
    LET m1 == IF isSpecial(timeEntry) THEN clearDay(m, dateKey) ELSE m
        m2 == IF dateKey \in DOMAIN m1 THEN m1 ELSE m1 @@ (dateKey :> <<>>)
    IN  [m2 EXCEPT ![dateKey] = Append(@, timeEntry)]

\* addEntry(dateKey, entry) for an entry that is already a TimeEntry
addEntry(m, dateKey, timeEntry) ==
    LET m1 == IF isSpecial(timeEntry) THEN clearDay(m, dateKey) ELSE m
        e1 == IF isSpecial(timeEntry) /\ isSmart(timeEntry) /\ isFriday(dateKey)
              THEN [timeEntry EXCEPT !.hours = SMART_HOURS_FRIDAY]
              ELSE timeEntry
        m2 == IF dateKey \in DOMAIN m1 THEN m1 ELSE m1 @@ (dateKey :> <<>>)
    IN  [m2 EXCEPT ![dateKey] = Append(@, e1)]

RemoveAt(s, i) == [j \in 1..(Len(s) - 1) |-> IF j < i THEN s[j] ELSE s[j + 1]]

\* index is the JS (0-based) index
IndexFound(m, dateKey, index) ==
    /\ dateKey \in DOMAIN m
    /\ index >= 0
    /\ index < Len(m[dateKey])

updateEntryInPlace(m, dateKey, index, updates) ==
    IF ~IndexFound(m, dateKey, index) THEN m
    ELSE [m EXCEPT ![dateKey][index + 1] = EntryUpdate(@, updates)]

\* updateEntry(dateKey, index, updates): the map afterwards
updateEntry(m, dateKey, index, updates) ==
    IF ~IndexFound(m, dateKey, index) THEN m
    ELSE LET entry == m[dateKey][index + 1]
             updated == EntryUpdate(entry, updates)
         IN  IF updates.type # NoType /\ updates.type \in SPECIAL_TYPES /\ ~isSpecial(entry)
             THEN [clearDay(m, dateKey) EXCEPT ![dateKey] = <<updated>>]
             ELSE [m EXCEPT ![dateKey][index + 1] = updated]

deleteEntryFirst(m, dateKey, index) ==
    IF ~IndexFound(m, dateKey, index) THEN m
    ELSE [m EXCEPT ![dateKey] = RemoveAt(@, 1)]

\* deleteEntry(dateKey, index): the map afterwards
deleteEntry(m, dateKey, index) ==
    IF ~IndexFound(m, dateKey, index) THEN m
    ELSE [m EXCEPT ![dateKey] = RemoveAt(@, index + 1)]

isSpecialDay(m, dateKey) ==
    /\ dateKey \in DOMAIN m
    /\ Len(m[dateKey]) = 1
    /\ isSpecial(m[dateKey][1])

hasEntries(m, dateKey) ==
    /\ dateKey \in DOMAIN m
    /\ Len(m[dateKey]) > 0

\* WeekData.toJSON(): only the dates that have entries
WeekToJSON(m) ==
    LET ks == {d \in DOMAIN m : Len(m[d]) > 0}
    IN  [d \in ks |-> [i \in 1..Len(m[d]) |-> EntryToJSON(m[d][i])]]

\* ids of the entries alive in the week
LiveIds(m) == UNION {{m[d][i].id : i \in 1..Len(m[d])} : d \in DOMAIN m}

\* TimeEntry.generateId(): an id no live entry has
generateId(m) == CHOOSE n \in 1..(Cardinality(LiveIds(m)) + 1) : n \notin LiveIds(m)

RECURSIVE TotalEntriesOver(_, _)
TotalEntriesOver(m, ds) ==
    IF ds = {} THEN 0
    ELSE LET d == CHOOSE x \in ds : TRUE
         IN  Len(m[d]) + TotalEntriesOver(m, ds \ {d})

getTotalEntryCount(m) == TotalEntriesOver(m, DOMAIN m)

\* loadFromJSON, one date: entries.forEach(entryData => this.addEntry(dateKey, entryData))
RECURSIVE LoadEntries(_, _, _, _)
LoadEntries(m, dateKey, list, i) ==
    IF i > Len(list) THEN m
    ELSE LoadEntries(addEntry(m, dateKey, NewTimeEntry(list[i], generateId(m))),
                     dateKey, list, i + 1)

\* loadFromJSON(data): for (const [dateKey, entries] of Object.entries(data))
RECURSIVE LoadDates(_, _, _)
LoadDates(m, data, ds) ==
    IF ds = {} THEN m
    ELSE LET d == CHOOSE x \in ds : \A y \in ds : x <= y
         IN  LoadDates(LoadEntries(m, d, data[d], 1), data, ds \ {d})

\* new WeekData(year, week, initialData)
NewWeekData(initialData) == LoadDates(EmptyWeek, initialData, DOMAIN initialData)

(***************************************************************************)
(* WeekData operations as actions                                          *)
(***************************************************************************)
EntryInputs ==
    {[type |-> t, time |-> tm, hours |-> Undef] : t \in TIME_REQUIRED_TYPES, tm \in RawTimes}
    \cup {[type |-> "smart", time |-> Undef, hours |-> h] : h \in RawHours}
    \cup {[type |-> "assente", time |-> Undef, hours |-> Undef]}

\* the updates objects built by handleEditEntry ({type, time} plus hours for a
\* special type) and the partial updates {time} and {hours}
UpdateInputs ==
    {[type |-> t, time |-> 800, hours |-> Undef] : t \in TIME_REQUIRED_TYPES}
    \cup {[type |-> "smart", time |-> Undef, hours |-> 60],
          [type |-> "assente", time |-> Undef, hours |-> 0],
          [type |-> NoType, time |-> 800, hours |-> Undef]}

NoCall == [op |-> "new", ret |-> Null]

WkInit ==
    /\ entries = EmptyWeek
    /\ wkLast = NoCall

WkAddEntry(dateKey, data) ==
    LET timeEntry == NewTimeEntry(data, generateId(entries))
        after == addEntry(entries, dateKey, timeEntry)
    IN  /\ getTotalEntryCount(after) <= MaxEntries
        /\ entries' = after
        /\ wkLast' = [op |-> "addEntry", ret |-> timeEntry.id]

WkUpdateEntry(dateKey, index, updates) ==
    /\ entries' = updateEntry(entries, dateKey, index, updates)
    /\ wkLast' = [op |-> "updateEntry",
                  ret |-> IF IndexFound(entries, dateKey, index)
                          THEN entries[dateKey][index + 1].id ELSE Null]

WkDeleteEntry(dateKey, index) ==
    /\ entries' = deleteEntry(entries, dateKey, index)
    /\ wkLast' = [op |-> "deleteEntry",
                  ret |-> IF IndexFound(entries, dateKey, index)
                          THEN entries[dateKey][index + 1].id ELSE Null]

WkClearDay(dateKey) ==
    /\ entries' = clearDay(entries, dateKey)
    /\ wkLast' = [op |-> "clearDay", ret |-> Null]

\* WeekData.fromWeekKey(weekKey, this.toJSON()): construction from serialized data
WkFromJSON ==
    /\ entries' = NewWeekData(WeekToJSON(entries))
    /\ wkLast' = [op |-> "fromWeekKey", ret |-> Null]

\* the calculator's variables when the specification does not use it
(***************************************************************************)
(* TimeCalculator.js                                                       *)
(***************************************************************************)
WEEKLY_TARGET_MINUTES == 2160
PAUSE_MINUTES == 30
PAUSE_THRESHOLD_HOURS == 6

Abs(n) == IF n < 0 THEN -n ELSE n

Max(a, b) == IF a >= b THEN a ELSE b

Min(a, b) == IF a <= b THEN a ELSE b

\* minutesToTime(totalMinutes): the string sign + HH + ":" + MM
minutesToTime(totalMinutes) ==
    [sign |-> IF totalMinutes < 0 THEN "-" ELSE "",
     hh   |-> Abs(totalMinutes) \div 60,
     mm   |-> Abs(totalMinutes) % 60]

\* entries.filter(e => e.type === type).map(e => e.time)
RECURSIVE TimesOfType(_, _)
TimesOfType(list, type) ==
    IF list = <<>> THEN <<>>
    ELSE IF Head(list).type = type
         THEN <<Head(list).time>> \o TimesOfType(Tail(list), type)
         ELSE TimesOfType(Tail(list), type)

\* the loop of calculatePairMinutes over the first `pairs` pairs
RECURSIVE PairSum(_, _, _)
PairSum(entrate, uscite, pairs) ==
    IF pairs = 0 THEN 0
    ELSE LET entrataMinutes == parseTimeToMinutes(entrate[pairs])
             uscitaMinutes == parseTimeToMinutes(uscite[pairs])
             diff == uscitaMinutes - entrataMinutes
         IN  PairSum(entrate, uscite, pairs - 1)
             + (IF entrataMinutes # Null /\ uscitaMinutes # Null /\ diff > 0
                THEN diff ELSE 0)

calculatePairMinutesUneven(list) ==
    LET entrate == TimesOfType(list, "entrata")
        uscite == TimesOfType(list, "uscita")
    IN  [workedMinutes |-> PairSum(entrate, uscite, Len(entrate)),
         hasIncomplete |-> Len(entrate) # Len(uscite)]

calculatePairMinutes(list) ==
    LET entrate == TimesOfType(list, "entrata")
        uscite == TimesOfType(list, "uscita")
    IN  [workedMinutes |-> PairSum(entrate, uscite, Min(Len(entrate), Len(uscite))),
         hasIncomplete |-> Len(entrate) > Len(uscite)]

shouldApplyPauseAtThreshold(workedMinutes, dateKey) ==
    IF isFriday(dateKey) THEN FALSE
    ELSE workedMinutes >= PAUSE_THRESHOLD_HOURS * 60

\* workedMinutes / 60 > PAUSE_THRESHOLD_HOURS, unless the date is a Friday
shouldApplyPause(workedMinutes, dateKey) ==
    IF isFriday(dateKey) THEN FALSE
    ELSE workedMinutes > PAUSE_THRESHOLD_HOURS * 60

\* the object returned by calculateDayHours; the two early returns carry no
\* grossMinutes and no pauseApplied field
calculateDayHours(list, dateKey) ==
    IF Len(list) = 0
    THEN [minutes |-> 0, formatted |-> minutesToTime(0), hasIncomplete |-> FALSE]
    ELSE IF Len(list) = 1 /\ list[1].type \in {"smart", "assente"}
    THEN LET hours == IF list[1].hours \in {Null, Undef} THEN 0 ELSE list[1].hours
             minutes == hours * 6
         IN  [minutes |-> minutes, formatted |-> minutesToTime(minutes),
              hasIncomplete |-> FALSE]
    ELSE LET pm == calculatePairMinutes(list)
             pauseMinutes == IF shouldApplyPause(pm.workedMinutes, dateKey)
                             THEN PAUSE_MINUTES ELSE 0
             netMinutes == Max(0, pm.workedMinutes - pauseMinutes)
         IN  [minutes |-> netMinutes, formatted |-> minutesToTime(netMinutes),
              hasIncomplete |-> pm.hasIncomplete,
              grossMinutes |-> pm.workedMinutes,
              pauseApplied |-> pauseMinutes > 0]

(***************************************************************************)
(* calculateDayHours applied to bounded inputs                             *)
(***************************************************************************)
\* longest entries list handed to calculateDayHours
MaxCalcLen == 4

\* clock times of the inputs: "08:00", "14:00", "14:01", "17:00", and null
CalcTimes == {800, 1400, 1401, 1700, Null}

\* the dates of the inputs: Monday 2026-02-02 and Friday 2026-02-06
CalcDates == {2, 6}

CalcClockEntries ==
    {[type |-> t, time |-> tm, hours |-> Undef] : t \in TIME_REQUIRED_TYPES, tm \in CalcTimes}

CalcSpecialEntries ==
    {[type |-> "smart", time |-> Undef, hours |-> h] : h \in {60, 75}}
    \cup {[type |-> "assente", time |-> Undef, hours |-> 0]}

SeqsUpTo(S, n) == UNION {[1..k -> S] : k \in 0..n}

CalcInit ==
    /\ calcEntries \in SeqsUpTo(CalcClockEntries, MaxCalcLen)
                       \cup {<<e>> : e \in CalcSpecialEntries}
    /\ calcDate \in CalcDates
    /\ calcResult = [pending |-> TRUE]
    /\ util = NoUtil
    /\ bus = NoBus
    /\ modal = NoModal

CalcDayHours ==
    /\ "pending" \in DOMAIN calcResult
    /\ calcResult' = calculateDayHours(calcEntries, calcDate)
    /\ UNCHANGED <<calcEntries, calcDate, util, bus, modal>>

(***************************************************************************)
(* calculateBalance and the text of minutesToTime                          *)
(***************************************************************************)
\* String(n).padStart(2, '0'), as the sequence of its characters
PadStart2(n) ==
    LET digit == <<"0", "1", "2", "3", "4", "5", "6", "7", "8", "9">>
    IN  (IF n >= 100 THEN <<digit[(n \div 100) + 1]>> ELSE <<>>)
        \o <<digit[((n \div 10) % 10) + 1], digit[(n % 10) + 1]>>

\* the string `${sign}${HH}:${MM}` minutesToTime returns, as its characters
TimeText(totalMinutes) ==
    LET t == minutesToTime(totalMinutes)
    IN  (IF t.sign = "" THEN <<>> ELSE <<t.sign>>)
        \o PadStart2(t.hh) \o <<":">> \o PadStart2(t.mm)

calculateBalancePlusWhenPositive(workedMinutes) ==
    LET balanceMinutes == workedMinutes - WEEKLY_TARGET_MINUTES
    IN  [minutes    |-> balanceMinutes,
         formatted  |-> (IF balanceMinutes > 0 THEN <<"+">> ELSE <<>>)
                        \o TimeText(balanceMinutes),
         isPositive |-> balanceMinutes > 0,
         isNegative |-> balanceMinutes < 0,
         isNeutral  |-> balanceMinutes = 0]

\* TimeCalculator.calculateBalance(workedMinutes)
calculateBalance(workedMinutes) ==
    LET balanceMinutes == workedMinutes - WEEKLY_TARGET_MINUTES
    IN  [minutes    |-> balanceMinutes,
         formatted  |-> (IF balanceMinutes >= 0 THEN <<"+">> ELSE <<>>)
                        \o TimeText(balanceMinutes),
         isPositive |-> balanceMinutes > 0,
         isNegative |-> balanceMinutes < 0,
         isNeutral  |-> balanceMinutes = 0]

(***************************************************************************)
(* DateUtils.js: ISO weeks.  A calendar day is its number of days since    *)
(* 0001-01-01 (a Monday, day 0); a Date object is its instant in hours     *)
(* since 0001-01-01T00:00Z; the runtime's time zone is its offset from UTC *)
(* in hours; a formatted date 'YYYY-MM-DD' is the calendar day it names.   *)
(***************************************************************************)
\* the years of the weeks and dates examined
FirstYear == 2015
LastYear == 2027

\* UTC offsets of the runtime: America/New_York (winter), UTC, Europe/Rome
TimeZoneOffsets == {-5, 0, 1}

\* Date.UTC(year, 0, 1), in days
DaysBeforeYear(year) ==
    365 * (year - 1) + ((year - 1) \div 4) - ((year - 1) \div 100) + ((year - 1) \div 400)

\* Date.UTC(year, 0, day) and Date.UTC(year, 11, day): a midnight UTC instant
DateUTC(day) == day * 24

\* d.getUTCFullYear() of a calendar day
getUTCFullYear(day) ==
    CHOOSE y \in (FirstYear - 2)..(LastYear + 2) :
        DaysBeforeYear(y) <= day /\ day < DaysBeforeYear(y + 1)

\* d.getUTCDay(): 0 is Sunday
getUTCDay(day) == (day + 1) % 7

\* the calendar day of new Date(year, 11, 28)
December28(year) == DaysBeforeYear(year + 1) - 4

\* the Thursday of the week of a day: setUTCDate(getUTCDate() + 4 - dayNum)
WeekThursday(day) ==
    LET dayNum == IF getUTCDay(day) = 0 THEN 7 ELSE getUTCDay(day)
    IN  day + 4 - dayNum

\* getWeekNumber(date), date given by the calendar day of its local fields
getWeekNumber(day) ==
    LET d == WeekThursday(day)
        yearStart == DaysBeforeYear(getUTCFullYear(d))
    IN  ((d - yearStart) + 1 + 6) \div 7

\* getWeekYear(date)
getWeekYear(day) == getUTCFullYear(WeekThursday(day))

getWeekStartDateJan1(year, week) ==
    LET jan1 == DaysBeforeYear(year)
        dayOfWeek == IF getUTCDay(jan1) = 0 THEN 7 ELSE getUTCDay(jan1)
        week1Monday == jan1 - dayOfWeek + 1
    IN  DateUTC(week1Monday + (week - 1) * 7)

\* getWeekStartDate(year, week): a Date at midnight UTC
getWeekStartDate(year, week) ==
    LET jan4 == DaysBeforeYear(year) + 3
        dayOfWeek == IF getUTCDay(jan4) = 0 THEN 7 ELSE getUTCDay(jan4)
        week1Monday == jan4 - dayOfWeek + 1
    IN  DateUTC(week1Monday + (week - 1) * 7)

\* getWorkWeekDates(year, week): five Dates at midnight UTC
getWorkWeekDates(year, week) ==
    [i \in 1..5 |-> getWeekStartDate(year, week) + (i - 1) * 24]

\* formatDateISO(date): the date of the local fields getFullYear, getMonth, getDate
formatDateISO(date, offset) == (date + offset) \div 24

\* the keys of this.entries after WeekData.initializeWorkDays()
initializeWorkDays(year, week, offset) ==
    {formatDateISO(getWorkWeekDates(year, week)[i], offset) : i \in 1..5}

\* getPreviousWeek(year, week)
getPreviousWeek(year, week) ==
    IF week = 1
    THEN [year |-> year - 1, week |-> getWeekNumber(December28(year - 1))]
    ELSE [year |-> year, week |-> week - 1]

getNextWeekPast(year, week) ==
    LET maxWeek == getWeekNumber(December28(year))
    IN  IF week > maxWeek THEN [year |-> year + 1, week |-> 1]
        ELSE [year |-> year, week |-> week + 1]

\* getNextWeek(year, week)
getNextWeek(year, week) ==
    LET maxWeek == getWeekNumber(December28(year))
    IN  IF week >= maxWeek THEN [year |-> year + 1, week |-> 1]
        ELSE [year |-> year, week |-> week + 1]

\* getWeekKey(year, week): the text `${year}-W${week padded to two digits}`,
\* written as the pair of the numbers it spells
getWeekKeyOf(year, week) == <<year, week>>

\* getWeekKey(date)
getWeekKey(day) == getWeekKeyOf(getWeekYear(day), getWeekNumber(day))

\* WeekData.forCurrentWeek() when new Date() is in calendar day today: the
\* year, week and weekKey of the WeekData it constructs
forCurrentWeek(today) ==
    LET year == getUTCFullYear(today)
        week == getWeekNumber(today)
    IN  [year |-> year, week |-> week, weekKey |-> getWeekKeyOf(year, week)]

Digits == {"0", "1", "2", "3", "4", "5", "6", "7", "8", "9"}

\* parseInt(text, 10) of one digit
DigitValue ==
    "0" :> 0 @@ "1" :> 1 @@ "2" :> 2 @@ "3" :> 3 @@ "4" :> 4
    @@ "5" :> 5 @@ "6" :> 6 @@ "7" :> 7 @@ "8" :> 8 @@ "9" :> 9

\* /^\d{4}-W([0-4][0-9]|5[0-3])$/.test(c), c the characters of a week key
WeekKeyPattern(c) ==
    /\ Len(c) = 8
    /\ \A i \in 1..4 : c[i] \in Digits
    /\ c[5] = "-"
    /\ c[6] = "W"
    /\ \/ c[7] \in {"0", "1", "2", "3", "4"} /\ c[8] \in Digits
       \/ c[7] = "5" /\ c[8] \in {"0", "1", "2", "3"}

\* parseWeekKey(weekKey), c the characters of weekKey: match
\* /^(\d{4})-W(\d{2})$/, throw if there is none, parseInt of the two groups
parseWeekKey(c) ==
    IF /\ Len(c) = 8
       /\ \A i \in {1, 2, 3, 4, 7, 8} : c[i] \in Digits
       /\ c[5] = "-"
       /\ c[6] = "W"
    THEN [threw |-> FALSE,
          year |-> 1000 * DigitValue[c[1]] + 100 * DigitValue[c[2]]
                   + 10 * DigitValue[c[3]] + DigitValue[c[4]],
          week |-> 10 * DigitValue[c[7]] + DigitValue[c[8]]]
    ELSE [threw |-> TRUE]

\* WeekData.fromWeekKey(weekKey): the year, week and weekKey of the WeekData
\* it constructs
fromWeekKey(c) ==
    LET r == parseWeekKey(c)
    IN  IF r.threw THEN r
        ELSE [threw |-> FALSE, year |-> r.year, week |-> r.week,
              weekKey |-> getWeekKeyOf(r.year, r.week)]

(***************************************************************************)
(* The stateless functions applied to bounded arguments                    *)
(***************************************************************************)
\* largest workedMinutes handed to calculateBalance
MaxWorkedMinutes == 4400

Years == FirstYear..LastYear

\* the ISO weeks of the years examined
ValidWeeks ==
    {yw \in Years \X (1..53) : yw[2] <= getWeekNumber(December28(yw[1]))}

\* week keys handed to validateWeekKey and fromWeekKey: '2026-W00' to
\* '2026-W99' and texts of another shape
KeyTexts ==
    {<<"2", "0", "2", "6", "-", "W", a, b>> : a, b \in Digits}
    \cup {<<"2", "0", "2", "6", "-", "6">>,
          <<"2", "0", "2", "6", "-", "W", "5">>,
          <<"2", "0", "2", "6", "-", "W", "0", "0", "5">>,
          <<"2", "0", "2", "6", "W", "0", "5">>}

UtilCalls ==
    {[name |-> "calculateBalance", arg |-> m] : m \in 0..MaxWorkedMinutes}
    \cup {[name |-> "WeekData", arg |-> [year |-> yw[1], week |-> yw[2], offset |-> o]] :
             yw \in ValidWeeks, o \in TimeZoneOffsets}
    \cup {[name |-> n, arg |-> [year |-> yw[1], week |-> yw[2]]] :
             n \in {"getPreviousWeek", "getNextWeek"}, yw \in ValidWeeks}
    \cup {[name |-> "getWeekNumber", arg |-> d] :
             d \in DaysBeforeYear(FirstYear)..(DaysBeforeYear(LastYear + 1) - 1)}
    \cup {[name |-> "forCurrentWeek", arg |-> d] :
             d \in DaysBeforeYear(FirstYear)..(DaysBeforeYear(LastYear + 1) - 1)}
    \cup {[name |-> n, arg |-> c] : n \in {"validateWeekKey", "fromWeekKey"}, c \in KeyTexts}

UtilInit ==
    \E c \in UtilCalls : util = [name |-> c.name, arg |-> c.arg, done |-> FALSE]

\* the pending call returns
UtilReturn(name, ret) ==
    /\ util.name = name
    /\ ~util.done
    /\ util' = [name |-> name, arg |-> util.arg, done |-> TRUE, ret |-> ret]
    /\ UNCHANGED <<calcEntries, calcDate, calcResult, bus, modal>>

CalculateBalance == UtilReturn("calculateBalance", calculateBalance(util.arg))

InitializeWorkDays ==
    UtilReturn("WeekData", initializeWorkDays(util.arg.year, util.arg.week, util.arg.offset))

GetPreviousWeek ==
    UtilReturn("getPreviousWeek", getPreviousWeek(util.arg.year, util.arg.week))

GetNextWeek == UtilReturn("getNextWeek", getNextWeek(util.arg.year, util.arg.week))

GetWeekNumber ==
    UtilReturn("getWeekNumber",
               [week |-> getWeekNumber(util.arg), year |-> getWeekYear(util.arg)])

ForCurrentWeek == UtilReturn("forCurrentWeek", forCurrentWeek(util.arg))

ValidateWeekKey == UtilReturn("validateWeekKey", [valid |-> WeekKeyPattern(util.arg)])

FromWeekKey == UtilReturn("fromWeekKey", fromWeekKey(util.arg))

(***************************************************************************)
(* Stored data.  The stored aggregate is an object week key -> week        *)
(* payload; the payloads are opaque to the storage layer, so two           *)
(* distinguishable WeekData.toJSON() objects stand for them.               *)
(***************************************************************************)
WeekKeys == {"2026-W05", "2026-W06"}

Payloads == {"a", "b"}

Aggregates == UNION {[K -> Payloads] : K \in SUBSET WeekKeys}

EmptyAgg == [k \in {} |-> "a"]

\* JSON.stringify(data): the text, as the set of its "key": value members
JSONstringify(data) == {<<k, data[k]>> : k \in DOMAIN data}

\* JSON.parse(text)
JSONparse(text) ==
    [k \in {m[1] : m \in text} |-> (CHOOSE m \in text : m[1] = k)[2]]

(***************************************************************************)
(* LocalStorageAdapter.js.  localStorage is a map item key -> text.  The   *)
(* save counter item (incrementSaveCount) swallows its own errors and is   *)
(* read by no operation modelled here; it is left out.                     *)
(***************************************************************************)
STORAGE_KEY == "workTimeData"

\* localStorage.setItem(key, text)
setItem(ls, key, text) == [k \in DOMAIN ls \cup {key} |-> IF k = key THEN text ELSE ls[k]]

\* LocalStorageAdapter.loadAllData; getItemOk = FALSE: getItem or JSON.parse throws
LsLoadAllData(ls, isAvailable, getItemOk) ==
    IF ~isAvailable THEN EmptyAgg
    ELSE IF ~getItemOk THEN EmptyAgg
    ELSE IF STORAGE_KEY \in DOMAIN ls THEN JSONparse(ls[STORAGE_KEY])
    ELSE EmptyAgg

\* LocalStorageAdapter.saveAllData; setItemOk = FALSE: setItem throws (quota).
\* Returns the new localStorage and whether the call threw.
LsSaveAllData(ls, isAvailable, setItemOk, data) ==
    IF ~isAvailable THEN [ls |-> ls, threw |-> TRUE]
    ELSE IF ~setItemOk THEN [ls |-> ls, threw |-> TRUE]
    ELSE [ls |-> setItem(ls, STORAGE_KEY, JSONstringify(data)), threw |-> FALSE]

(***************************************************************************)
(* IndexedDBAdapter (part_002).  The weeks store is a set of records       *)
(* {weekKey, data} keyed by weekKey; the backups store a set of records    *)
(* {id, timestamp, data} keyed by the auto-incremented id.                 *)
(***************************************************************************)
MAX_BACKUPS == 10

\* store.put({weekKey, data}) on the weeks store
IdbPut(store, weekKey, weekData) ==
    {r \in store : r.weekKey # weekKey} \cup {[weekKey |-> weekKey, data |-> weekData]}

\* the object IndexedDBAdapter.loadAllData builds from store.getAll()
IdbLoadAllData(store, isReady, getAllOk) ==
    IF ~isReady THEN EmptyAgg
    ELSE IF ~getAllOk THEN EmptyAgg
    ELSE [k \in {r.weekKey : r \in store} |-> (CHOOSE r \in store : r.weekKey = k).data]

\* IndexedDBAdapter.getWeekKeys (as a set; the order is not used by the caller)
IdbGetWeekKeys(store, isReady, getAllKeysOk) ==
    IF ~isReady THEN {}
    ELSE IF ~getAllKeysOk THEN {}
    ELSE {r.weekKey : r \in store}

\* requests that take effect one by one, outside a transaction
TxnNonAtomic(committed, staged, complete) == staged

\* What the database holds of a readwrite transaction on the weeks store:
\* nothing of it until it completes, all of it afterwards.
TxnVisible(committed, staged, complete) ==
    IF complete THEN staged ELSE committed

\* index('timestamp').openCursor(null, 'prev'): the record with the greatest
\* timestamp, the greatest id among equal timestamps
IsLastBackup(backups, b) ==
    /\ b \in backups
    /\ \A x \in backups :
          \/ x.timestamp < b.timestamp
          \/ (x.timestamp = b.timestamp /\ x.id <= b.id)

\* IndexedDBAdapter.getLastBackup: <<>> for null, <<backup>> otherwise
IdbGetLastBackup(backups, isReady, cursorOk) ==
    IF ~isReady \/ ~cursorOk \/ backups = {} THEN <<>>
    ELSE <<CHOOSE b \in backups : IsLastBackup(backups, b)>>

\* IndexedDBAdapter.getAllBackups
IdbGetAllBackups(backups, isReady, getAllOk) ==
    IF ~isReady \/ ~getAllOk THEN {} ELSE backups

\* cleanOldBackups: the records it deletes, given what getAllBackups returned:
\* after a stable sort by timestamp, the first length - 10 of them
ToDelete(all) ==
    IF Cardinality(all) <= MAX_BACKUPS THEN {}
    ELSE {b \in all :
            Cardinality({x \in all : \/ x.timestamp > b.timestamp
                                     \/ (x.timestamp = b.timestamp /\ x.id > b.id)})
                >= MAX_BACKUPS}

(***************************************************************************)
(* StorageManager.js over the two adapters.  A call runs from its Begin    *)
(* step through the write requests of its saveAllData (one step per        *)
(* localStorage.setItem and per IndexedDB request) to its return; the      *)
(* page can be closed between any two steps.                               *)
(***************************************************************************)
\* new StorageManager() on a page load; lsAvailable is the constructor's probe
NewSession(lsAvailable) ==
    [up |-> TRUE, lsAvailable |-> lsAvailable, useIndexedDB |-> FALSE,
     isInitialized |-> FALSE]

NoSession ==
    [up |-> FALSE, lsAvailable |-> FALSE, useIndexedDB |-> FALSE,
     isInitialized |-> FALSE]

Idle ==
    [op |-> "none", pc |-> "idle", data |-> EmptyAgg, toLs |-> FALSE,
     lsW |-> "none", idbW |-> "none", staged |-> {}, todo |-> {}, ret |-> <<>>]

\* a call that is about to write `data`: to localStorage first (toLs) or, for
\* the migration, to IndexedDB only
NewCall(op, data, toLs, ret) ==
    [Idle EXCEPT !.op = op, !.pc = IF toLs THEN "ls" ELSE "clear",
                 !.data = data, !.toLs = toLs, !.ret = ret]

NoRet == [op |-> "none"]

\* what the two stores hold
LsAgg == LsLoadAllData(localStorage, TRUE, TRUE)

IdbAgg == IdbLoadAllData(idbWeeks, TRUE, TRUE)

NoHist ==
    [P0 |-> EmptyAgg, S0 |-> EmptyAgg, d |-> EmptyAgg, crashed |-> FALSE, inits |-> 0]

\* the stores before the most recent write call and the aggregate it writes
NewHist(data) ==
    [P0 |-> LsAgg, S0 |-> IdbAgg, d |-> data, crashed |-> FALSE, inits |-> 0]

\* StorageManager.loadAllData without the fallback to localStorage
loadAllDataNoFallback(ls, weeks, s, getAllOk, getItemOk) ==
    IF s.useIndexedDB
    THEN IdbLoadAllData(weeks, s.useIndexedDB, getAllOk)
    ELSE LsLoadAllData(ls, s.lsAvailable, getItemOk)

\* StorageManager.loadAllData
loadAllData(ls, weeks, s, getAllOk, getItemOk) ==
    LET idbData == IdbLoadAllData(weeks, s.useIndexedDB, getAllOk)
    IN  IF s.useIndexedDB /\ DOMAIN idbData # {}
        THEN idbData
        ELSE LsLoadAllData(ls, s.lsAvailable, getItemOk)

\* which adapter reads loadAllData made and how they ended
ReadLog(weeks, s, getAllOk, getItemOk) ==
    LET idbR == IF ~s.useIndexedDB THEN "none" ELSE IF getAllOk THEN "ok" ELSE "fail"
        idbData == IdbLoadAllData(weeks, s.useIndexedDB, getAllOk)
    IN  [idbR |-> idbR,
         lsR  |-> IF s.useIndexedDB /\ DOMAIN idbData # {} THEN "none"
                  ELSE IF s.lsAvailable /\ getItemOk THEN "ok" ELSE "fail"]

\* the try/catch of StorageManager.saveAllData: true after the writes, false
\* from the catch block when a write threw
saveAllDataOutcome(lsW, idbW) ==
    IF lsW = "fail" \/ idbW = "fail"
    THEN [returned |-> FALSE, threw |-> FALSE]
    ELSE [returned |-> TRUE, threw |-> FALSE]

\* importData: the result of saveAllData is not looked at; only an exception
\* reaches the catch block
importDataReturn(outcome, counts) ==
    IF outcome.threw
    THEN [success |-> FALSE, imported |-> 0, existing |-> 0]
    ELSE [success |-> TRUE, imported |-> counts.imported, existing |-> counts.existing]

\* restoreLastBackup: <<>> for null, <<data>> for lastBackup.data
restoreLastBackupReturn(outcome, backupData) ==
    IF outcome.threw THEN <<>> ELSE <<backupData>>

\* the record of a call that has run its writes to the end
Return(c, s) ==
    LET outcome == saveAllDataOutcome(c.lsW, c.idbW)
    IN  [op |-> c.op, data |-> c.data, lsW |-> c.lsW, idbW |-> c.idbW,
         useIndexedDB |-> s.useIndexedDB, arg |-> c.ret,
         threw |-> IF c.op = "saveAllData" THEN outcome.threw ELSE FALSE,
         ret |-> CASE c.op = "saveAllData" -> outcome.returned
                   [] c.op = "importData" -> importDataReturn(outcome, c.ret)
                   [] c.op = "restoreLastBackup" -> restoreLastBackupReturn(outcome, c.data)
                   [] OTHER -> s.lsAvailable]

Ready == session.up /\ session.isInitialized /\ call.pc = "idle"

\* a call ends: its result is recorded; init() sets isInitialized
Finish(c) ==
    /\ call' = Idle
    /\ last' = Return(c, session)
    /\ session' = IF c.op = "init" THEN [session EXCEPT !.isInitialized = TRUE]
                  ELSE session
    /\ hist' = IF c.op = "init" THEN [hist EXCEPT !.inits = Min(hist.inits + 1, 2)]
               ELSE hist

\* localStorage.saveAllData(data), first write of StorageManager.saveAllData
SaveStepLs(setItemOk) ==
    /\ call.pc = "ls"
    /\ LET w == LsSaveAllData(localStorage, session.lsAvailable, setItemOk, call.data)
       IN  /\ localStorage' = w.ls
           /\ IF w.threw THEN Finish([call EXCEPT !.lsW = "fail"])
              ELSE IF session.useIndexedDB
              THEN /\ call' = [call EXCEPT !.lsW = "ok", !.pc = "clear"]
                   /\ UNCHANGED <<last, session, hist>>
              ELSE Finish([call EXCEPT !.lsW = "ok"])
    /\ UNCHANGED <<idbWeeks, idbBackups, bkLog, now>>

\* one request of the IndexedDB transaction has succeeded with `staged` as the
\* transaction's view of the store and `todo` the keys still to put
IdbRequestDone(staged, todo) ==
    /\ idbWeeks' = TxnVisible(idbWeeks, staged, todo = {})
    /\ IF todo = {} THEN Finish([call EXCEPT !.idbW = "ok"])
       ELSE /\ call' = [call EXCEPT !.pc = "put", !.staged = staged, !.todo = todo]
            /\ UNCHANGED <<last, session, hist>>

\* a request of the transaction fails: the transaction aborts and
\* indexedDB.saveAllData throws
IdbRequestFailed ==
    /\ idbWeeks' = idbWeeks
    /\ Finish([call EXCEPT !.idbW = "fail"])

\* indexedDB.saveAllData(data): store.clear()
SaveStepClear(requestOk) ==
    /\ call.pc = "clear"
    /\ IF requestOk THEN IdbRequestDone({}, DOMAIN call.data) ELSE IdbRequestFailed
    /\ UNCHANGED <<localStorage, idbBackups, bkLog, now>>

\* indexedDB.saveAllData(data): store.put({weekKey, data}) for the next entry
SaveStepPut(weekKey, requestOk) ==
    /\ call.pc = "put"
    /\ weekKey \in call.todo
    /\ IF requestOk
       THEN IdbRequestDone(IdbPut(call.staged, weekKey, call.data[weekKey]),
                           call.todo \ {weekKey})
       ELSE IdbRequestFailed
    /\ UNCHANGED <<localStorage, idbBackups, bkLog, now>>

\* StorageManager.init with migrateFromLocalStorage; idbOpens is the outcome
\* of indexedDB.init()
SmInit(idbOpens, getItemOk, getAllKeysOk) ==
    /\ session.up /\ call.pc = "idle"
    /\ LET s == [session EXCEPT !.useIndexedDB = idbOpens]
           lsData == LsLoadAllData(localStorage, s.lsAvailable, getItemOk)
           idbKeys == IdbGetWeekKeys(idbWeeks, idbOpens, getAllKeysOk)
       IN  IF idbOpens /\ idbKeys = {} /\ DOMAIN lsData # {}
           THEN /\ call' = NewCall("init", lsData, FALSE, idbKeys)
                /\ session' = s
                /\ last' = NoRet
                /\ hist' = hist
           ELSE /\ call' = Idle
                /\ session' = [s EXCEPT !.isInitialized = TRUE]
                /\ last' = Return([Idle EXCEPT !.op = "init"], s)
                /\ hist' = [hist EXCEPT !.inits = Min(hist.inits + 1, 2)]
    /\ UNCHANGED <<localStorage, idbWeeks, idbBackups, bkLog, now>>

SmLoadAllData(getAllOk, getItemOk) ==
    /\ Ready
    /\ last' = [op |-> "loadAllData",
                ret |-> loadAllData(localStorage, idbWeeks, session, getAllOk, getItemOk),
                rd |-> ReadLog(idbWeeks, session, getAllOk, getItemOk)]
    /\ hist' = [hist EXCEPT !.inits = 0]
    /\ UNCHANGED <<localStorage, idbWeeks, idbBackups, bkLog, now, session, call>>

SmSaveAllData(data) ==
    /\ Ready
    /\ call' = NewCall("saveAllData", data, TRUE, <<>>)
    /\ hist' = NewHist(data)
    /\ last' = NoRet
    /\ UNCHANGED <<localStorage, idbWeeks, idbBackups, bkLog, now, session>>

SmImportData(payload, merge, getAllOk, getItemOk) ==
    /\ Ready
    /\ LET currentData == loadAllData(localStorage, idbWeeks, session, getAllOk, getItemOk)
           existing == IF merge THEN DOMAIN payload \cap DOMAIN currentData ELSE {}
           merged == [k \in DOMAIN currentData \cup DOMAIN payload |->
                        IF k \in DOMAIN currentData THEN currentData[k] ELSE payload[k]]
           data == IF merge THEN merged ELSE payload
           info == [imported |-> Cardinality(DOMAIN payload \ existing),
                    existing |-> Cardinality(existing),
                    payload |-> payload, merge |-> merge]
       IN  /\ call' = NewCall("importData", data, TRUE, info)
           /\ hist' = NewHist(data)
    /\ last' = NoRet
    /\ UNCHANGED <<localStorage, idbWeeks, idbBackups, bkLog, now, session>>

SmRestoreLastBackup(cursorOk) ==
    /\ Ready
    /\ LET lastBackup == IdbGetLastBackup(idbBackups, session.useIndexedDB, cursorOk)
       IN  IF lastBackup = <<>>
           THEN /\ last' = [op |-> "restoreLastBackup", ret |-> <<>>,
                            lsW |-> "none", idbW |-> "none"]
                /\ hist' = [hist EXCEPT !.inits = 0]
                /\ call' = call
           ELSE /\ call' = NewCall("restoreLastBackup", lastBackup[1].data, TRUE, <<>>)
                /\ hist' = NewHist(lastBackup[1].data)
                /\ last' = NoRet
    /\ UNCHANGED <<localStorage, idbWeeks, idbBackups, bkLog, now, session>>

\* IndexedDBAdapter.createBackup up to the add request; timestamp = Date.now()
BkCreateBackup(data, timestamp, addOk) ==
    /\ Ready
    /\ timestamp >= now
    /\ now' = timestamp
    /\ hist' = [hist EXCEPT !.inits = 0]
    /\ IF session.useIndexedDB /\ addOk
       THEN LET backup == [id |-> Cardinality(bkLog) + 1, timestamp |-> timestamp,
                           data |-> data]
            IN  /\ idbBackups' = idbBackups \cup {backup}
                /\ bkLog' = bkLog \cup {backup}
                /\ call' = [Idle EXCEPT !.op = "createBackup", !.pc = "clean",
                                        !.ret = backup.id]
                /\ last' = NoRet
       ELSE /\ last' = [op |-> "createBackup", threw |-> TRUE]
            /\ UNCHANGED <<idbBackups, bkLog, call>>
    /\ UNCHANGED <<localStorage, idbWeeks, session>>

\* the cleanOldBackups() that ends createBackup: its errors are swallowed
BkCleanOldBackups(getAllOk, deleteOk) ==
    /\ call.pc = "clean"
    /\ LET backups == IdbGetAllBackups(idbBackups, session.useIndexedDB, getAllOk)
       IN  idbBackups' = IF deleteOk THEN idbBackups \ ToDelete(backups) ELSE idbBackups
    /\ last' = [op |-> "createBackup", threw |-> FALSE, ret |-> call.ret]
    /\ call' = Idle
    /\ UNCHANGED <<localStorage, idbWeeks, bkLog, now, session, hist>>

\* the page is closed or reloaded: the running call stops where it is and an
\* unfinished IndexedDB transaction is aborted
Crash ==
    /\ session.up
    /\ session' = NoSession
    /\ call' = Idle
    /\ last' = NoRet
    /\ hist' = IF call.toLs THEN [hist EXCEPT !.crashed = TRUE] ELSE hist
    /\ UNCHANGED <<localStorage, idbWeeks, idbBackups, bkLog, now>>

\* the page is loaded: new StorageManager()
Start(lsAvailable) ==
    /\ ~session.up
    /\ session' = NewSession(lsAvailable)
    /\ UNCHANGED <<localStorage, idbWeeks, idbBackups, bkLog, now, call, last, hist>>

(***************************************************************************)
(* The storage layer under every sequence of calls, failures and reloads   *)
(***************************************************************************)
\* backups created while the week stores are exercised
MaxStoreBackups == 1

\* aggregates offered to saveAllData
SaveInputs ==
    {EmptyAgg, [k \in {"2026-W05"} |-> "a"], [k \in WeekKeys |-> "a"]}

\* payloads offered to importData
ImportPayloads == {[k \in {"2026-W06"} |-> "b"], [k \in WeekKeys |-> "b"]}

\* snapshots offered to createBackup
BackupInputs == {[k \in {"2026-W05"} |-> "b"]}

StoreInit ==
    /\ localStorage = EmptyAgg
    /\ idbWeeks = {}
    /\ idbBackups = {}
    /\ bkLog = {}
    /\ now = 1
    /\ session = NoSession
    /\ call = Idle
    /\ last = NoRet
    /\ hist = NoHist

(***************************************************************************)
(* The backup log alone: createBackup called again and again               *)
(***************************************************************************)
\* createBackup calls explored
MaxBackupCalls == 12

\* Date.now() takes values up to this one
MaxClock == 3

BackupInit ==
    /\ localStorage = EmptyAgg
    /\ idbWeeks = {}
    /\ idbBackups = {}
    /\ bkLog = {}
    /\ now = 1
    /\ session = [NewSession(TRUE) EXCEPT !.useIndexedDB = TRUE, !.isInitialized = TRUE]
    /\ call = Idle
    /\ last = NoRet
    /\ hist = NoHist

(***************************************************************************)
(* Import files: validateImportData (part_006) and ExportService.importJSON*)
(* A parsed JSON value carries its kind; an object carries its members, an *)
(* array its items.  Date keys are days of February 2026, so the date      *)
(* check that can fail is the overflow check ("2026-02-30").  Arrays in    *)
(* the place of the top-level object or of a week payload are not among    *)
(* the files considered.                                                   *)
(***************************************************************************)
JsObject(members) == [kind |-> "object", members |-> members]

JsArray(items) == [kind |-> "array", items |-> items]

JsNull == [kind |-> "null"]

JsString == [kind |-> "string"]

\* the characters of the week keys that occur in import files
KeyText ==
    "2026-W05" :> <<"2", "0", "2", "6", "-", "W", "0", "5">>
    @@ "2026-W06" :> <<"2", "0", "2", "6", "-", "W", "0", "6">>
    @@ "2026-W54" :> <<"2", "0", "2", "6", "-", "W", "5", "4">>
    @@ "2026-6" :> <<"2", "0", "2", "6", "-", "6">>

\* validateWeekKey(weekKey).valid of a key of an import file
validateWeekKey(weekKey) == WeekKeyPattern(KeyText[weekKey])

\* validateDate for "2026-02-DD": new Date(2026, 1, day) must not overflow
validateDate(date) == date \in 1..28

\* validateEntry(entry).valid
validateEntry(entry) ==
    /\ entry.type \in VALID_ENTRY_TYPES
    /\ requiresTime(entry.type) => validateTime(entry.time)
    /\ isSpecialType(entry.type) => (entry.hours \notin {Null, Undef} /\ entry.hours >= 0)

\* validateImportData(data): errors are the places of the structural errors
\* (date Null: the week itself), warnings the places of the malformed entries
validateImportData(data) ==
    IF data.kind # "object"
    THEN [valid |-> FALSE, errors |-> {[week |-> "", date |-> Null]}, warnings |-> {}]
    ELSE LET weeks == data.members
             badWeeks == {k \in DOMAIN weeks : ~validateWeekKey(k) \/ weeks[k].kind # "object"}
             goodWeeks == DOMAIN weeks \ badWeeks
             days == UNION {{[week |-> k, date |-> d] : d \in DOMAIN weeks[k].members} :
                              k \in goodWeeks}
             badDays == {p \in days : \/ ~validateDate(p.date)
                                      \/ weeks[p.week].members[p.date].kind # "array"}
             items(p) == weeks[p.week].members[p.date].items
             errors == {[week |-> k, date |-> Null] : k \in badWeeks} \cup badDays
             warnings ==
                 UNION {{[week |-> p.week, date |-> p.date, index |-> i - 1] :
                            i \in {j \in 1..Len(items(p)) : ~validateEntry(items(p)[j])}} :
                          p \in days \ badDays}
         IN  [valid |-> errors = {}, errors |-> errors, warnings |-> warnings]

\* the data of a file that passed validation, as the aggregate importData gets
ImportedData(data) ==
    [k \in DOMAIN data.members |->
        [d \in DOMAIN data.members[k].members |-> data.members[k].members[d].items]]

\* importJSON that also refuses a file with warnings
importJSONStrict(file) ==
    IF file.parses /\ validateImportData(file.data).valid
       /\ validateImportData(file.data).warnings = {}
    THEN [success |-> TRUE, data |-> ImportedData(file.data)]
    ELSE [success |-> FALSE, data |-> EmptyAgg]

\* ExportService.importJSON(file): JSON.parse, then validateImportData
importJSON(file) ==
    IF ~file.parses THEN [success |-> FALSE, data |-> EmptyAgg]
    ELSE IF ~validateImportData(file.data).valid
    THEN [success |-> FALSE, data |-> EmptyAgg]
    ELSE [success |-> TRUE, data |-> ImportedData(file.data)]

(***************************************************************************)
(* AppController (part_000) under the UI callbacks of UIManager (part_006).*)
(* A callback runs from its event to its first await that waits for the    *)
(* event loop (an IndexedDB request, a modal dialog); the listeners have   *)
(* no busy guard, so other callbacks start while it waits.  IndexedDB runs *)
(* the transactions on the weeks store one at a time in creation order.    *)
(* A step is computed on st = [tasks, ctl, txns, ls] and then applied.     *)
(***************************************************************************)
\* callbacks running at the same time
MaxTasks == 2

\* entries recorded in the week shown
MaxDayEntries == 2

\* getTodayDateKey(): Thursday 2026-02-05, in the week shown
Today == 5

CurrentWeekKey == "2026-W06"

\* getCurrentTime(): "08:00"
CurrentTime == 800

\* the records the weeks store holds after indexedDB.saveAllData(data)
IdbRecords(data) == {[weekKey |-> k, data |-> data[k]] : k \in DOMAIN data}

\* saveCurrentWeek: this.allData with the week shown set to data, or without
\* it when data has no date
SetWeek(allData, data) ==
    IF DOMAIN data # {}
    THEN [k \in DOMAIN allData \cup {CurrentWeekKey} |->
             IF k = CurrentWeekKey THEN data ELSE allData[k]]
    ELSE [k \in DOMAIN allData \ {CurrentWeekKey} |-> allData[k]]

\* loadWeekData: WeekData.fromWeekKey(weekKey, this.allData[weekKey] || {})
LoadWeek(allData) ==
    IF CurrentWeekKey \in DOMAIN allData THEN NewWeekData(allData[CurrentWeekKey])
    ELSE EmptyWeek

NoTask == [handler |-> "none", pc |-> "idle", arg |-> <<>>]

NoToast == [kind |-> "none", saved |-> TRUE]

Here == [tasks |-> tasks, ctl |-> ctl, txns |-> txns, ls |-> localStorage]

Apply(st) ==
    /\ tasks' = st.tasks
    /\ ctl' = st.ctl
    /\ txns' = st.txns
    /\ localStorage' = st.ls

CanStart == \E t \in DOMAIN tasks : tasks[t].pc = "idle"

\* the task a new callback runs as
FreeTask == CHOOSE t \in DOMAIN tasks : tasks[t].pc = "idle"

\* the task waits in state pc for a transaction on the weeks store
Await(st, t, handler, pc, kind, data, arg) ==
    [st EXCEPT !.tasks[t] = [handler |-> handler, pc |-> pc, arg |-> arg],
               !.txns = Append(st.txns, [task |-> t, kind |-> kind, data |-> data])]

\* the callback shows a toast and returns; saved: what its saveAllData returned
TaskEnds(st, t, kind, saved) ==
    [st EXCEPT !.tasks[t] = NoTask, !.ctl.toast = [kind |-> kind, saved |-> saved]]

\* currentWeekData.addEntry(today, entry); saveCurrentWeek() up to the first
\* IndexedDB request of storage.saveAllData; its result is not looked at
AddAndSave(st, t, handler, week, data, setItemOk) ==
    LET w1 == addEntry(week, Today, NewTimeEntry(data, generateId(week)))
        allData == SetWeek(st.ctl.allData, WeekToJSON(w1))
        w == LsSaveAllData(st.ls, session.lsAvailable, setItemOk, allData)
        s1 == [st EXCEPT !.ctl.week = w1, !.ctl.allData = allData, !.ls = w.ls]
    IN  IF ~w.threw /\ session.useIndexedDB
        THEN Await(s1, t, handler, "saving", "write", allData, <<>>)
        ELSE TaskEnds(s1, t, "success", ~w.threw)

EntrataData == [type |-> "entrata", time |-> CurrentTime, hours |-> Undef]

UscitaData == [type |-> "uscita", time |-> CurrentTime, hours |-> Undef]

SmartData ==
    [type |-> "smart", time |-> Undef, hours |-> getDefaultHours("smart", isFriday(Today))]

\* openConfirmModal: the task waits for the user's answer
AskConfirm(st, t, handler) ==
    [st EXCEPT !.tasks[t] = [handler |-> handler, pc |-> "confirm", arg |-> <<>>]]

handleEntrata(setItemOk) ==
    /\ CanStart
    /\ Apply(IF isSpecialDay(ctl.week, Today) THEN AskConfirm(Here, FreeTask, "entrata")
             ELSE AddAndSave(Here, FreeTask, "entrata", ctl.week, EntrataData, setItemOk))
    /\ UNCHANGED idbWeeks

handleUscita(setItemOk) ==
    /\ CanStart
    /\ LET list == getEntriesForDate(ctl.week, Today)
           entrate == {i \in 1..Len(list) : list[i].type = "entrata"}
           uscite == {i \in 1..Len(list) : list[i].type = "uscita"}
       IN  Apply(IF \/ isSpecialDay(ctl.week, Today)
                    \/ Cardinality(entrate) = 0
                    \/ Cardinality(entrate) = Cardinality(uscite)
                 THEN [Here EXCEPT !.ctl.toast = [kind |-> "warning", saved |-> TRUE]]
                 ELSE AddAndSave(Here, FreeTask, "uscita", ctl.week, UscitaData, setItemOk))
    /\ UNCHANGED idbWeeks

handleSmart(setItemOk) ==
    /\ CanStart
    /\ Apply(IF hasEntries(ctl.week, Today) THEN AskConfirm(Here, FreeTask, "smart")
             ELSE AddAndSave(Here, FreeTask, "smart", ctl.week, SmartData, setItemOk))
    /\ UNCHANGED idbWeeks

\* the user answers the confirm modal of task t
ConfirmAnswered(t, confirm, setItemOk) ==
    /\ tasks[t].pc = "confirm"
    /\ IF ~confirm THEN Apply([Here EXCEPT !.tasks[t] = NoTask])
       ELSE IF tasks[t].handler = "entrata"
       THEN Apply(AddAndSave(Here, t, "entrata", clearDay(ctl.week, Today),
                             EntrataData, setItemOk))
       ELSE Apply(AddAndSave(Here, t, "smart", ctl.week, SmartData, setItemOk))
    /\ UNCHANGED idbWeeks

\* handleImport after importData returned success: this.allData =
\* await storage.loadAllData(), up to its IndexedDB read
ImportReload(st, t, saved) ==
    IF session.useIndexedDB
    THEN Await(st, t, "import", "importReload", "read", EmptyAgg, saved)
    ELSE LET allData == LsLoadAllData(st.ls, session.lsAvailable, TRUE)
         IN  TaskEnds([st EXCEPT !.ctl.allData = allData, !.ctl.week = LoadWeek(allData)],
                      t, "success", saved)

\* importData(payload, true) from the merge to the first IndexedDB request of
\* its saveAllData
ImportMergeSave(st, t, payload, currentData, setItemOk) ==
    LET merged == [k \in DOMAIN currentData \cup DOMAIN payload |->
                      IF k \in DOMAIN currentData THEN currentData[k] ELSE payload[k]]
        w == LsSaveAllData(st.ls, session.lsAvailable, setItemOk, merged)
        s1 == [st EXCEPT !.ls = w.ls]
    IN  IF ~w.threw /\ session.useIndexedDB
        THEN Await(s1, t, "import", "importSave", "write", merged, <<>>)
        ELSE ImportReload(s1, t, ~w.threw)

\* handleImport(file): a refused file ends in an error toast; the data of an
\* accepted one goes to importData(data, true), up to its first IndexedDB read
handleImport(file, getItemOk, setItemOk) ==
    /\ CanStart
    /\ LET result == importJSON(file)
       IN  Apply(IF ~result.success
                 THEN [Here EXCEPT !.ctl.toast = [kind |-> "error", saved |-> TRUE]]
                 ELSE IF session.useIndexedDB
                 THEN Await(Here, FreeTask, "import", "importRead", "read", EmptyAgg,
                            result.data)
                 ELSE ImportMergeSave(Here, FreeTask, result.data,
                                      LsLoadAllData(localStorage, session.lsAvailable,
                                                    getItemOk),
                                      setItemOk))
    /\ UNCHANGED idbWeeks

\* the oldest transaction on the weeks store ends and its task goes on
TxnDone(requestOk, getItemOk, setItemOk) ==
    /\ txns # <<>>
    /\ LET x == Head(txns)
           t == x.task
           st == [Here EXCEPT !.txns = Tail(txns)]
           idbData == IdbLoadAllData(idbWeeks, TRUE, requestOk)
           loaded == IF DOMAIN idbData # {} THEN idbData
                     ELSE LsLoadAllData(localStorage, session.lsAvailable, getItemOk)
       IN  /\ idbWeeks' = IF x.kind = "write" /\ requestOk THEN IdbRecords(x.data)
                          ELSE idbWeeks
           /\ Apply(CASE tasks[t].pc = "saving" -> TaskEnds(st, t, "success", requestOk)
                      [] tasks[t].pc = "importRead" ->
                            ImportMergeSave(st, t, tasks[t].arg, loaded, setItemOk)
                      [] tasks[t].pc = "importSave" -> ImportReload(st, t, requestOk)
                      [] tasks[t].pc = "importReload" ->
                            TaskEnds([st EXCEPT !.ctl.allData = loaded,
                                                !.ctl.week = LoadWeek(loaded)],
                                     t, "success", tasks[t].arg))

\* a file whose text is the JSON of data
File(data) == [parses |-> TRUE, data |-> data]

\* the parsed week object {dateKey: [entries]} of a week's JSON
WeekObject(json) == JsObject([d \in DOMAIN json |-> JsArray(json[d])])

\* import files that pass validation: the week shown with a smart day, and
\* another week
ImportFiles ==
    {File(JsObject([k \in {CurrentWeekKey} |->
             WeekObject(WeekToJSON(addEntry(EmptyWeek, Today, NewTimeEntry(SmartData, 1))))])),
     File(JsObject([k \in {"2026-W05"} |-> WeekObject(EmptyAgg)]))}

CtlInit ==
    /\ localStorage = EmptyAgg
    /\ idbWeeks = {}
    /\ session \in {[NewSession(TRUE) EXCEPT !.useIndexedDB = u, !.isInitialized = TRUE] :
                      u \in BOOLEAN}
    /\ ctl = [allData |-> EmptyAgg, week |-> EmptyWeek, toast |-> NoToast]
    /\ tasks = [t \in 1..MaxTasks |-> NoTask]
    /\ txns = <<>>

CtlUnused ==
    /\ ctl = [allData |-> EmptyAgg, week |-> EmptyWeek, toast |-> NoToast]
    /\ tasks = [t \in 1..MaxTasks |-> NoTask]
    /\ txns = <<>>

(***************************************************************************)
(* Specifications.  Each one moves one part of the program and holds the   *)
(* other parts still.                                                      *)
(***************************************************************************)
CalcUnused ==
    /\ calcEntries = <<>>
    /\ calcDate = 2
    /\ calcResult = [pending |-> TRUE]
    /\ util = NoUtil
    /\ bus = NoBus
    /\ modal = NoModal

WeekInit == WkInit /\ CalcUnused /\ StoreInit /\ CtlUnused

WkNext ==
    \/ /\ \E d \in OpDates, data \in EntryInputs : WkAddEntry(d, data)
       /\ UNCHANGED <<calcVars, storeVars, ctlVars>>
    \/ /\ \E d \in OpDates, i \in -1..MaxEntries, u \in UpdateInputs : WkUpdateEntry(d, i, u)
       /\ UNCHANGED <<calcVars, storeVars, ctlVars>>
    \/ /\ \E d \in OpDates, i \in -1..MaxEntries : WkDeleteEntry(d, i)
       /\ UNCHANGED <<calcVars, storeVars, ctlVars>>
    \/ /\ \E d \in OpDates : WkClearDay(d)
       /\ UNCHANGED <<calcVars, storeVars, ctlVars>>
    \/ /\ WkFromJSON
       /\ UNCHANGED <<calcVars, storeVars, ctlVars>>

SpecWeek == WeekInit /\ [][WkNext]_vars

CalcOnlyInit == CalcInit /\ WkInit /\ StoreInit /\ CtlUnused

CalcNext == CalcDayHours /\ UNCHANGED <<weekVars, storeVars, ctlVars>>

SpecCalc == CalcOnlyInit /\ [][CalcNext]_vars

StoreOnlyInit == StoreInit /\ WkInit /\ CalcUnused /\ CtlUnused

StoreNext ==
    \/ /\ \E lsAvailable \in BOOLEAN : Start(lsAvailable)
       /\ UNCHANGED <<weekVars, calcVars, ctlVars>>
    \/ /\ \E idbOpens, getItemOk, getAllKeysOk \in BOOLEAN :
             SmInit(idbOpens, getItemOk, getAllKeysOk)
       /\ UNCHANGED <<weekVars, calcVars, ctlVars>>
    \/ /\ \E getAllOk, getItemOk \in BOOLEAN : SmLoadAllData(getAllOk, getItemOk)
       /\ UNCHANGED <<weekVars, calcVars, ctlVars>>
    \/ /\ \E data \in SaveInputs : SmSaveAllData(data)
       /\ UNCHANGED <<weekVars, calcVars, ctlVars>>
    \/ /\ \E payload \in ImportPayloads, merge, getAllOk, getItemOk \in BOOLEAN :
             SmImportData(payload, merge, getAllOk, getItemOk)
       /\ UNCHANGED <<weekVars, calcVars, ctlVars>>
    \/ /\ \E cursorOk \in BOOLEAN : SmRestoreLastBackup(cursorOk)
       /\ UNCHANGED <<weekVars, calcVars, ctlVars>>
    \/ /\ \E setItemOk \in BOOLEAN : SaveStepLs(setItemOk)
       /\ UNCHANGED <<weekVars, calcVars, ctlVars>>
    \/ /\ \E requestOk \in BOOLEAN : SaveStepClear(requestOk)
       /\ UNCHANGED <<weekVars, calcVars, ctlVars>>
    \/ /\ \E weekKey \in WeekKeys, requestOk \in BOOLEAN : SaveStepPut(weekKey, requestOk)
       /\ UNCHANGED <<weekVars, calcVars, ctlVars>>
    \/ /\ \E data \in BackupInputs, addOk \in BOOLEAN :
             /\ Cardinality(bkLog) < MaxStoreBackups
             /\ BkCreateBackup(data, now, addOk)
       /\ UNCHANGED <<weekVars, calcVars, ctlVars>>
    \/ /\ \E getAllOk, deleteOk \in BOOLEAN : BkCleanOldBackups(getAllOk, deleteOk)
       /\ UNCHANGED <<weekVars, calcVars, ctlVars>>
    \/ /\ Crash
       /\ UNCHANGED <<weekVars, calcVars, ctlVars>>

SpecStore == StoreOnlyInit /\ [][StoreNext]_vars

BackupOnlyInit == BackupInit /\ WkInit /\ CalcUnused /\ CtlUnused

BackupNext ==
    \/ /\ \E data \in BackupInputs, timestamp \in 1..MaxClock, addOk \in BOOLEAN :
             /\ Cardinality(bkLog) < MaxBackupCalls
             /\ timestamp <= now + 1
             /\ BkCreateBackup(data, timestamp, addOk)
       /\ UNCHANGED <<weekVars, calcVars, ctlVars>>
    \/ /\ \E getAllOk, deleteOk \in BOOLEAN : BkCleanOldBackups(getAllOk, deleteOk)
       /\ UNCHANGED <<weekVars, calcVars, ctlVars>>

SpecBackup == BackupOnlyInit /\ [][BackupNext]_vars

CtlOnlyInit ==
    /\ CtlInit
    /\ idbBackups = {} /\ bkLog = {} /\ now = 1
    /\ call = Idle /\ last = NoRet /\ hist = NoHist
    /\ WkInit /\ CalcUnused

CtlFrame == UNCHANGED <<weekVars, calcVars, idbBackups, now, session, call, last, hist, bkLog>>

CtlNext ==
    \/ /\ getTotalEntryCount(ctl.week) < MaxDayEntries
       /\ \E setItemOk \in BOOLEAN : handleEntrata(setItemOk)
       /\ CtlFrame
    \/ /\ getTotalEntryCount(ctl.week) < MaxDayEntries
       /\ \E setItemOk \in BOOLEAN : handleUscita(setItemOk)
       /\ CtlFrame
    \/ /\ \E setItemOk \in BOOLEAN : handleSmart(setItemOk)
       /\ CtlFrame
    \/ /\ \E t \in 1..MaxTasks, confirm, setItemOk \in BOOLEAN :
             ConfirmAnswered(t, confirm, setItemOk)
       /\ CtlFrame
    \/ /\ \E file \in ImportFiles, getItemOk, setItemOk \in BOOLEAN :
             handleImport(file, getItemOk, setItemOk)
       /\ CtlFrame
    \/ /\ \E requestOk, getItemOk, setItemOk \in BOOLEAN :
             TxnDone(requestOk, getItemOk, setItemOk)
       /\ CtlFrame

SpecCtl == CtlOnlyInit /\ [][CtlNext]_vars

(***************************************************************************)
(* Import of files, one at a time, into a store that holds nothing or the  *)
(* week shown.  last records the file handled and what importJSON made of  *)
(* it, hist the stores before.                                             *)
(***************************************************************************)
\* an entry with an impossible time, an entry of an unknown type, a smart
\* entry without hours
MalformedEntries ==
    {[type |-> "entrata", time |-> 2500, hours |-> Undef],
     [type |-> "pausa", time |-> Undef, hours |-> Undef],
     [type |-> "smart", time |-> Undef, hours |-> Undef]}

GoodWeek == WeekObject(5 :> <<[type |-> "entrata", time |-> 800, hours |-> Undef]>>)

\* files offered to handleImport: the valid ones; weeks with one malformed
\* entry after a good one; a malformed week key next to a good week; week
\* payloads that are null or a string; an impossible date; entries that are
\* not an array; the text "null"; a text that is not JSON
ImportCandidates ==
    ImportFiles
    \cup {File(JsObject("2026-W05" :>
                 WeekObject(5 :> <<[type |-> "uscita", time |-> 1700, hours |-> Undef], e>>))) :
             e \in MalformedEntries}
    \cup {File(JsObject(k :> GoodWeek @@ "2026-W05" :> GoodWeek)) : k \in {"2026-W54", "2026-6"}}
    \cup {File(JsObject("2026-W05" :> v @@ "2026-W06" :> GoodWeek)) : v \in {JsNull, JsString}}
    \cup {File(JsObject("2026-W05" :> JsObject(30 :> JsArray(<<>>)))),
          File(JsObject("2026-W05" :> JsObject(5 :> JsString))),
          File(JsNull),
          [parses |-> FALSE, data |-> JsNull]}

\* what is stored when the page is loaded
ImportStored ==
    {EmptyAgg,
     [k \in {CurrentWeekKey} |->
         WeekToJSON(addEntry(EmptyWeek, Today, NewTimeEntry(EntrataData, 1)))]}

ImportOnlyInit ==
    /\ \E stored \in ImportStored, useIndexedDB \in BOOLEAN :
          /\ localStorage = IF stored = EmptyAgg THEN EmptyAgg
                            ELSE setItem(EmptyAgg, STORAGE_KEY, JSONstringify(stored))
          /\ idbWeeks = IF useIndexedDB THEN IdbRecords(stored) ELSE {}
          /\ session = [NewSession(TRUE) EXCEPT !.useIndexedDB = useIndexedDB,
                                                !.isInitialized = TRUE]
          /\ ctl = [allData |-> stored, week |-> LoadWeek(stored), toast |-> NoToast]
    /\ tasks = [t \in 1..MaxTasks |-> NoTask]
    /\ txns = <<>>
    /\ idbBackups = {} /\ bkLog = {} /\ now = 1
    /\ call = Idle /\ last = NoRet /\ hist = NoHist
    /\ WkInit /\ CalcUnused

ImportNext ==
    \/ /\ \E file \in ImportCandidates, getItemOk, setItemOk \in BOOLEAN :
             /\ \A t \in DOMAIN tasks : tasks[t].pc = "idle"
             /\ handleImport(file, getItemOk, setItemOk)
             /\ last' = [op |-> "handleImport", file |-> file,
                          result |-> importJSON(file),
                          validation |-> IF file.parses
                                         THEN <<validateImportData(file.data)>>
                                         ELSE <<>>]
             /\ hist' = NewHist(importJSON(file).data)
       /\ UNCHANGED <<weekVars, calcVars, idbBackups, now, session, call, bkLog>>
    \/ /\ \E requestOk, getItemOk, setItemOk \in BOOLEAN :
             TxnDone(requestOk, getItemOk, setItemOk)
       /\ CtlFrame

SpecImport == ImportOnlyInit /\ [][ImportNext]_vars

(***************************************************************************)
(* Stale weeks: StorageManager.findOldWeeks, deleteWeekData, cleanOldData  *)
(* and AppController.checkOldData.  A storage call is computed on          *)
(* store = [ls, weeks] with the outcomes f of its requests.                *)
(* StorageManager.createBackup() is called by the controller but is not in *)
(* the StorageManager source at hand; it is modelled from its description  *)
(* and from the caller that tests its boolean result.                      *)
(***************************************************************************)
\* outcomes of the requests of one storage call (the reads fail together)
CleanFlags ==
    {[getAllOk |-> r, getItemOk |-> r, setItemOk |-> s, requestOk |-> w] :
        r, s, w \in BOOLEAN}

\* StorageManager.saveAllData(data) run to its end
saveAllData(store, s, data, f) ==
    LET w == LsSaveAllData(store.ls, s.lsAvailable, f.setItemOk, data)
    IN  IF w.threw THEN [ls |-> store.ls, weeks |-> store.weeks, ret |-> FALSE]
        ELSE IF ~s.useIndexedDB THEN [ls |-> w.ls, weeks |-> store.weeks, ret |-> TRUE]
        ELSE IF f.requestOk THEN [ls |-> w.ls, weeks |-> IdbRecords(data), ret |-> TRUE]
        ELSE [ls |-> w.ls, weeks |-> store.weeks, ret |-> FALSE]

\* StorageManager.deleteWeekData(weekKey)
deleteWeekData(store, s, weekKey, f) ==
    LET allData == loadAllData(store.ls, store.weeks, s, f.getAllOk, f.getItemOk)
    IN  IF weekKey \in DOMAIN allData
        THEN saveAllData(store, s, [k \in DOMAIN allData \ {weekKey} |-> allData[k]], f)
        ELSE [ls |-> store.ls, weeks |-> store.weeks, ret |-> TRUE]

\* StorageManager.cleanOldData(weekKeys) from the i-th key on; fl[i] are the
\* outcomes of the requests of the i-th deleteWeekData
RECURSIVE cleanOldData(_, _, _, _, _)
cleanOldData(store, s, weekKeys, fl, i) ==
    IF i > Len(weekKeys)
    THEN [ls |-> store.ls, weeks |-> store.weeks, deleted |-> 0]
    ELSE LET r == deleteWeekData(store, s, weekKeys[i], fl[i])
             rest == cleanOldData(r, s, weekKeys, fl, i + 1)
         IN  [rest EXCEPT !.deleted = @ + (IF r.ret THEN 1 ELSE 0)]

\* parseInt(match[2]) of /^(\d{4})-W(\d{2})$/
WeekNumber == "2026-W05" :> 5 @@ "2026-W06" :> 6

\* findOldWeeks: new Date(year, 0, 1 + (week - 1) * 7) < cutoffDate, with the
\* dates as days of 2026
findOldWeeks(weekKeys, cutoffDate) ==
    {k \in weekKeys : 1 + (WeekNumber[k] - 1) * 7 < cutoffDate}

\* the arrays of week keys, without repetition
KeySeqs ==
    {<<>>} \cup {<<k>> : k \in WeekKeys}
    \cup {<<"2026-W05", "2026-W06">>, <<"2026-W06", "2026-W05">>}

\* StorageManager.createBackup(): a snapshot of loadAllData() is added to the
\* backup log, which is then pruned; false when IndexedDB is not in use or
\* the backup fails
createBackup(backups, log, store, s, timestamp, f) ==
    LET data == loadAllData(store.ls, store.weeks, s, f.getAllOk, f.getItemOk)
        backup == [id |-> Cardinality(log) + 1, timestamp |-> timestamp, data |-> data]
        added == backups \cup {backup}
    IN  IF ~s.useIndexedDB \/ ~f.requestOk
        THEN [backups |-> backups, log |-> log, ret |-> FALSE, id |-> Null]
        ELSE [backups |-> added \ ToDelete(added), log |-> log \cup {backup},
              ret |-> TRUE, id |-> backup.id]

\* checkOldData up to openCleanDataModal; cutoffDate is three months before now
CheckOldData(cutoffDate, f) ==
    /\ Ready
    /\ LET allData == loadAllData(localStorage, idbWeeks, session, f.getAllOk, f.getItemOk)
           oldWeeks == findOldWeeks(DOMAIN allData, cutoffDate)
       IN  /\ call' = IF oldWeeks = {} THEN Idle
                      ELSE [Idle EXCEPT !.op = "checkOldData", !.pc = "modal",
                                        !.todo = oldWeeks]
           /\ last' = IF oldWeeks = {}
                      THEN [op |-> "checkOldData", keys |-> <<>>, deleted |-> 0,
                            backupId |-> Null]
                      ELSE NoRet
    /\ UNCHANGED <<localStorage, idbWeeks, idbBackups, bkLog, now, session, hist, ctl>>

\* the modal is answered; action 'clean': createBackup(), cleanOldData(oldWeeks),
\* reload of allData and of the week shown, toast
CleanModalAnswered(clean, fb, fl, fr) ==
    /\ call.pc = "modal"
    /\ call' = Idle
    /\ LET store == [ls |-> localStorage, weeks |-> idbWeeks]
           bk == createBackup(idbBackups, bkLog, store, session, now, fb)
           oldWeeks == CHOOSE q \in KeySeqs :
                          /\ {q[i] : i \in 1..Len(q)} = call.todo
                          /\ \A i \in 1..(Len(q) - 1) : WeekNumber[q[i]] < WeekNumber[q[i + 1]]
           r == cleanOldData(store, session, oldWeeks, fl, 1)
           allData == loadAllData(r.ls, r.weeks, session, fr.getAllOk, fr.getItemOk)
       IN  IF clean
           THEN /\ localStorage' = r.ls
                /\ idbWeeks' = r.weeks
                /\ idbBackups' = bk.backups
                /\ bkLog' = bk.log
                /\ ctl' = [ctl EXCEPT !.allData = allData, !.week = LoadWeek(allData),
                                      !.toast = [kind |-> "success", saved |-> TRUE]]
                /\ last' = [op |-> "checkOldData", keys |-> oldWeeks,
                            deleted |-> r.deleted, backupId |-> bk.id]
                /\ hist' = NewHist(EmptyAgg)
           ELSE /\ last' = NoRet
                /\ UNCHANGED <<localStorage, idbWeeks, idbBackups, bkLog, ctl, hist>>
    /\ UNCHANGED <<now, session>>

\* a direct call storage.cleanOldData(weekKeys)
SmCleanOldData(weekKeys, fl) ==
    /\ Ready
    /\ LET r == cleanOldData([ls |-> localStorage, weeks |-> idbWeeks], session,
                             weekKeys, fl, 1)
       IN  /\ localStorage' = r.ls
           /\ idbWeeks' = r.weeks
           /\ last' = [op |-> "cleanOldData", keys |-> weekKeys, deleted |-> r.deleted,
                       backupId |-> Null]
    /\ hist' = NewHist(EmptyAgg)
    /\ UNCHANGED <<idbBackups, bkLog, now, session, call, ctl>>

\* the page is loaded with one or two stored weeks, in both stores when
\* IndexedDB is in use
CleanOnlyInit ==
    /\ \E K \in {{"2026-W05"}, WeekKeys}, useIndexedDB \in BOOLEAN :
          LET stored == [k \in K |->
                  WeekToJSON(addEntry(EmptyWeek, Today, NewTimeEntry(EntrataData, 1)))]
          IN  /\ localStorage = setItem(EmptyAgg, STORAGE_KEY, JSONstringify(stored))
              /\ idbWeeks = IF useIndexedDB THEN IdbRecords(stored) ELSE {}
              /\ session = [NewSession(TRUE) EXCEPT !.useIndexedDB = useIndexedDB,
                                                    !.isInitialized = TRUE]
              /\ ctl = [allData |-> stored, week |-> LoadWeek(stored), toast |-> NoToast]
    /\ tasks = [t \in 1..MaxTasks |-> NoTask]
    /\ txns = <<>>
    /\ idbBackups = {} /\ bkLog = {} /\ now = 1
    /\ call = Idle /\ last = NoRet /\ hist = NoHist
    /\ WkInit /\ CalcUnused

CleanNext ==
    \/ /\ \E cutoffDate \in {30, 40}, f \in CleanFlags : CheckOldData(cutoffDate, f)
       /\ UNCHANGED <<weekVars, calcVars, tasks, txns>>
    \/ /\ \E clean \in BOOLEAN, fb \in CleanFlags, fl \in [1..2 -> CleanFlags],
             fr \in {f \in CleanFlags : f.setItemOk /\ f.requestOk} :
             /\ Cardinality(bkLog) < MaxStoreBackups
             /\ CleanModalAnswered(clean, fb, fl, fr)
       /\ UNCHANGED <<weekVars, calcVars, tasks, txns>>
    \/ /\ \E weekKeys \in KeySeqs, fl \in [1..2 -> CleanFlags] : SmCleanOldData(weekKeys, fl)
       /\ UNCHANGED <<weekVars, calcVars, tasks, txns>>

SpecClean == CleanOnlyInit /\ [][CleanNext]_vars

(***************************************************************************)
(* One WeekData call on a week built by the constructor: the week holds    *)
(* what a sequence of at most MaxEntries addEntry calls leaves, and the    *)
(* call, its arguments and the week before it are recorded in last.        *)
(***************************************************************************)
\* the week after adds[i], adds[i + 1], ...: each a <<dateKey, entryData>>
RECURSIVE BuildWeek(_, _, _)
BuildWeek(m, adds, i) ==
    IF i > Len(adds) THEN m
    ELSE BuildWeek(LoadEntries(m, adds[i][1], <<adds[i][2]>>, 1), adds, i + 1)

WeekCallInit ==
    /\ \E n \in 0..MaxEntries : \E adds \in [1..n -> OpDates \X EntryInputs] :
          entries = BuildWeek(EmptyWeek, adds, 1)
    /\ wkLast = NoCall
    /\ CalcUnused /\ StoreInit /\ CtlUnused

WeekCall(op, dateKey, index, arg) ==
    /\ wkLast = NoCall
    /\ last' = [op |-> op, date |-> dateKey, index |-> index, arg |-> arg,
                before |-> entries]
    /\ UNCHANGED <<calcVars, localStorage, idbWeeks, idbBackups, now, session, call,
                   hist, bkLog, ctlVars>>

WeekCallNext ==
    \/ \E d \in OpDates, data \in EntryInputs :
          WeekCall("addEntry", d, Null, data) /\ WkAddEntry(d, data)
    \/ \E d \in OpDates, i \in -1..MaxEntries, u \in UpdateInputs :
          WeekCall("updateEntry", d, i, u) /\ WkUpdateEntry(d, i, u)
    \/ \E d \in OpDates, i \in -1..MaxEntries :
          WeekCall("deleteEntry", d, i, Null) /\ WkDeleteEntry(d, i)

SpecWeekCall == WeekCallInit /\ [][WeekCallNext]_vars

(***************************************************************************)
(* The day shown, changed by the buttons and the edit dialog in a session  *)
(* that stores to localStorage only and whose writes succeed.  last        *)
(* records the handler that ran and today's entries before it.             *)
(***************************************************************************)
\* entries today may hold before a handler adds one
MaxPressEntries == 3

\* saveCurrentWeek() of a week changed in place, up to the first IndexedDB
\* request of storage.saveAllData
SaveWeek(st, t, handler, w1, setItemOk) ==
    LET allData == SetWeek(st.ctl.allData, WeekToJSON(w1))
        w == LsSaveAllData(st.ls, session.lsAvailable, setItemOk, allData)
        s1 == [st EXCEPT !.ctl.week = w1, !.ctl.allData = allData, !.ls = w.ls]
    IN  IF ~w.threw /\ session.useIndexedDB
        THEN Await(s1, t, handler, "saving", "write", allData, <<>>)
        ELSE TaskEnds(s1, t, "success", ~w.threw)

\* what openEditModal resolves to, followed for 'delete' by the answer of
\* the confirm modal
EditResults ==
    {[action |-> "delete", confirm |-> c, type |-> NoType, time |-> Undef] : c \in BOOLEAN}
    \cup {[action |-> "save", confirm |-> FALSE, type |-> t, time |-> CurrentTime] :
             t \in TIME_REQUIRED_TYPES}

\* handleEditEntry(today, index, entry) from the answer of its modals on
handleEditEntry(index, result, setItemOk) ==
    /\ CanStart
    /\ IndexFound(ctl.week, Today, index)
    /\ Apply(IF result.action = "delete"
             THEN IF result.confirm
                  THEN SaveWeek(Here, FreeTask, "edit",
                                deleteEntry(ctl.week, Today, index), setItemOk)
                  ELSE Here
             ELSE SaveWeek(Here, FreeTask, "edit",
                           updateEntry(ctl.week, Today, index,
                                       [type |-> result.type, time |-> result.time,
                                        hours |-> Undef]),
                           setItemOk))
    /\ UNCHANGED idbWeeks

DayInit ==
    /\ localStorage = EmptyAgg
    /\ idbWeeks = {}
    /\ session = [NewSession(TRUE) EXCEPT !.isInitialized = TRUE]
    /\ CtlUnused
    /\ idbBackups = {} /\ bkLog = {} /\ now = 1
    /\ call = Idle /\ last = NoRet /\ hist = NoHist
    /\ WkInit /\ CalcUnused

\* a handler starts on the day as it is
DayCall(op) ==
    /\ last' = [op |-> op, before |-> getEntriesForDate(ctl.week, Today)]
    /\ UNCHANGED <<weekVars, calcVars, idbBackups, now, session, call, hist, bkLog>>

DayNext ==
    \/ /\ getTotalEntryCount(ctl.week) <= MaxPressEntries
       /\ DayCall("handleEntrata")
       /\ handleEntrata(TRUE)
    \/ /\ getTotalEntryCount(ctl.week) <= MaxPressEntries
       /\ DayCall("handleUscita")
       /\ handleUscita(TRUE)
    \/ /\ DayCall("handleSmart")
       /\ handleSmart(TRUE)
    \/ /\ DayCall("confirm")
       /\ \E t \in 1..MaxTasks, confirm \in BOOLEAN : ConfirmAnswered(t, confirm, TRUE)
    \/ /\ DayCall("handleEditEntry")
       /\ \E i \in 0..MaxPressEntries, result \in EditResults :
             handleEditEntry(i, result, TRUE)

SpecDay == DayInit /\ [][DayNext]_vars

(***************************************************************************)
(* EventBus, one event.  bus.listeners holds the registered wrapped        *)
(* callbacks by the number of their on() call, bus.lastEmitted whether the *)
(* event was ever emitted, bus.runs for each on() call its options and how *)
(* many times its callback has run.                                        *)
(***************************************************************************)
\* on() calls made on the bus
MaxListeners == 3

\* executions of one callback followed
MaxRuns == 3

\* callback(...) of the on() calls in ids
RunCallbacks(runs, ids) ==
    [i \in DOMAIN runs |-> IF i \in ids THEN [runs[i] EXCEPT !.count = @ + 1] ELSE runs[i]]

\* on(event, callback, {once, immediate}) with a new callback
BusOn(once, immediate) ==
    /\ Len(bus.runs) < MaxListeners
    /\ LET id == Len(bus.runs) + 1
           registered == Append(bus.runs,
                                [once |-> once, immediate |-> immediate, count |-> 0])
       IN  bus' = [listeners   |-> bus.listeners \cup {id},
                   lastEmitted |-> bus.lastEmitted,
                   runs        |-> IF immediate /\ bus.lastEmitted
                                   THEN RunCallbacks(registered, {id})
                                   ELSE registered]
    /\ UNCHANGED <<calcEntries, calcDate, calcResult, util, modal>>

\* off(event, wrappedCallback), also the function on() returned
BusOff(id) ==
    /\ id \in bus.listeners
    /\ bus' = [bus EXCEPT !.listeners = @ \ {id}]
    /\ UNCHANGED <<calcEntries, calcDate, calcResult, util, modal>>

\* offAll(event)
BusOffAll ==
    /\ bus.listeners # {}
    /\ bus' = [bus EXCEPT !.listeners = {}]
    /\ UNCHANGED <<calcEntries, calcDate, calcResult, util, modal>>

\* emit(event, data): every registered callback runs; a once wrapper removes
\* itself before it calls its callback
BusEmit ==
    /\ \A i \in DOMAIN bus.runs : bus.runs[i].count < MaxRuns
    /\ bus' = [listeners   |-> {i \in bus.listeners : ~bus.runs[i].once},
               lastEmitted |-> TRUE,
               runs        |-> RunCallbacks(bus.runs, bus.listeners)]
    /\ UNCHANGED <<calcEntries, calcDate, calcResult, util, modal>>

BusInit ==
    /\ bus = NoBus
    /\ modal = NoModal
    /\ calcEntries = <<>> /\ calcDate = 2 /\ calcResult = [pending |-> TRUE]
    /\ util = NoUtil
    /\ WkInit /\ StoreInit /\ CtlUnused

BusNext ==
    \/ /\ \E once, immediate \in BOOLEAN : BusOn(once, immediate)
       /\ UNCHANGED <<weekVars, storeVars, ctlVars>>
    \/ /\ \E id \in 1..MaxListeners : BusOff(id)
       /\ UNCHANGED <<weekVars, storeVars, ctlVars>>
    \/ /\ BusOffAll
       /\ UNCHANGED <<weekVars, storeVars, ctlVars>>
    \/ /\ BusEmit
       /\ UNCHANGED <<weekVars, storeVars, ctlVars>>

SpecBus == BusInit /\ [][BusNext]_vars

(***************************************************************************)
(* saveWeekData and deleteWeekData, each run to its end, on the stores     *)
(* earlier calls left.  last records the call and the localStorage         *)
(* aggregate before it.                                                    *)
(***************************************************************************)
\* outcomes of the storage requests of one call
StoreFlags ==
    [getAllOk : BOOLEAN, getItemOk : BOOLEAN, setItemOk : BOOLEAN, requestOk : BOOLEAN]

\* StorageManager.saveWeekData(weekKey, weekData)
saveWeekData(store, s, weekKey, weekData, f) ==
    LET allData == loadAllData(store.ls, store.weeks, s, f.getAllOk, f.getItemOk)
    IN  saveAllData(store, s,
                    [k \in DOMAIN allData \cup {weekKey} |->
                        IF k = weekKey THEN weekData ELSE allData[k]],
                    f)

\* a call on the two stores ends
WeekStoreCall(op, weekKey, r) ==
    /\ Ready
    /\ localStorage' = r.ls
    /\ idbWeeks' = r.weeks
    /\ last' = [op |-> op, key |-> weekKey, before |-> LsAgg, ret |-> r.ret]
    /\ UNCHANGED <<idbBackups, bkLog, now, session, call, hist>>

SmSaveWeekData(weekKey, weekData, f) ==
    WeekStoreCall("saveWeekData", weekKey,
                  saveWeekData([ls |-> localStorage, weeks |-> idbWeeks], session,
                               weekKey, weekData, f))

SmDeleteWeekData(weekKey, f) ==
    WeekStoreCall("deleteWeekData", weekKey,
                  deleteWeekData([ls |-> localStorage, weeks |-> idbWeeks], session,
                                 weekKey, f))

\* the page is loaded on empty stores, with or without IndexedDB
WeekStoreInit ==
    /\ localStorage = EmptyAgg
    /\ idbWeeks = {}
    /\ session \in {[NewSession(TRUE) EXCEPT !.useIndexedDB = u, !.isInitialized = TRUE] :
                      u \in BOOLEAN}
    /\ idbBackups = {} /\ bkLog = {} /\ now = 1
    /\ call = Idle /\ last = NoRet /\ hist = NoHist
    /\ WkInit /\ CalcUnused /\ CtlUnused

WeekStoreNext ==
    \/ /\ \E weekKey \in WeekKeys, weekData \in {"a", "b"}, f \in StoreFlags :
             SmSaveWeekData(weekKey, weekData, f)
       /\ UNCHANGED <<weekVars, calcVars, ctlVars>>
    \/ /\ \E weekKey \in WeekKeys, f \in StoreFlags : SmDeleteWeekData(weekKey, f)
       /\ UNCHANGED <<weekVars, calcVars, ctlVars>>

SpecWeekStore == WeekStoreInit /\ [][WeekStoreNext]_vars

(***************************************************************************)
(* ModalManager.  modal.promises holds, for each open*Modal call in order, *)
(* the modal it opened, <<result>> once that modal was closed with result, *)
(* and <<value>> once its promise was resolved with value.                 *)
(* modal.currentResolver is the call whose resolver is kept, 0 for null;   *)
(* modal.isOpen the modals that carry the class is-open.                   *)
(***************************************************************************)
\* open*Modal calls made
MaxModals == 3

\* the modals opened: confirm, backupReminder, cleanData
ModalNames == {"confirm", "backupReminder", "cleanData"}

\* what close() is called with: null (cancel, Escape, overlay), {confirmed:
\* true}, {action: 'backup'}, {action: 'clean'}
CloseResults == {"null", "confirmed", "backup", "clean"}

\* what the resolver of an open*Modal call hands to resolve: openConfirmModal
\* wraps it as result?.confirmed || false
ResolverValue(name, result) ==
    IF name # "confirm" THEN result
    ELSE IF result = "confirmed" THEN "true" ELSE "false"

\* close(result)
close(m, result) ==
    IF m.activeModal = "none" THEN m
    ELSE LET closed == [m EXCEPT !.isOpen = @ \ {m.activeModal},
                                 !.promises[m.owner].closed = <<result>>,
                                 !.activeModal = "none",
                                 !.owner = 0]
             r == m.currentResolver
         IN  IF r = 0 THEN closed
             ELSE [closed EXCEPT
                      !.promises[r].resolved =
                          IF @ = <<>> THEN <<ResolverValue(m.promises[r].name, result)>>
                          ELSE @,
                      !.currentResolver = 0]

\* open(name), called by the open*Modal call p
open(m, name, p) ==
    LET m1 == IF m.activeModal # "none" THEN close(m, "null") ELSE m
    IN  [m1 EXCEPT !.isOpen = @ \cup {name}, !.activeModal = name, !.owner = p]

\* openConfirmModal, openBackupReminderModal, openCleanDataModal: the
\* executor stores the resolver, then calls open(name)
OpenModal(name) ==
    /\ Len(modal.promises) < MaxModals
    /\ LET p == Len(modal.promises) + 1
           m1 == [modal EXCEPT !.promises = Append(@, [name |-> name, closed |-> <<>>,
                                                        resolved |-> <<>>]),
                               !.currentResolver = p]
       IN  modal' = open(m1, name, p)
    /\ UNCHANGED <<calcEntries, calcDate, calcResult, util, bus>>

\* a button, the overlay or Escape closes the active modal
CloseModal(result) ==
    /\ modal.activeModal # "none"
    /\ modal' = close(modal, result)
    /\ UNCHANGED <<calcEntries, calcDate, calcResult, util, bus>>

ModalInit ==
    /\ modal = NoModal
    /\ calcEntries = <<>> /\ calcDate = 2 /\ calcResult = [pending |-> TRUE]
    /\ util = NoUtil /\ bus = NoBus
    /\ WkInit /\ StoreInit /\ CtlUnused

ModalNext ==
    \/ /\ \E name \in ModalNames : OpenModal(name)
       /\ UNCHANGED <<weekVars, storeVars, ctlVars>>
    \/ /\ \E result \in CloseResults : CloseModal(result)
       /\ UNCHANGED <<weekVars, storeVars, ctlVars>>

SpecModal == ModalInit /\ [][ModalNext]_vars

(***************************************************************************)
(* The controller's callbacks with IndexedDB in use, as in SpecCtl, with   *)
(* a record of the entry recorded last: last holds the week its handler    *)
(* wrote, as issued while its IndexedDB transaction is unfinished and as   *)
(* saved once it has succeeded, until the user records something else.     *)
(***************************************************************************)
LostInit ==
    /\ CtlInit
    /\ session.useIndexedDB
    /\ idbBackups = {} /\ bkLog = {} /\ now = 1
    /\ call = Idle /\ last = NoRet /\ hist = NoHist
    /\ WkInit /\ CalcUnused

LostFrame == UNCHANGED <<weekVars, calcVars, idbBackups, now, session, call, hist, bkLog>>

\* all callbacks have returned and no transaction is unfinished
Quiet == txns = <<>> /\ \A t \in DOMAIN tasks : tasks[t].pc = "idle"

\* the record of what the callback that has just run as task t recorded
Issued(t) ==
    IF tasks'[t].pc = "saving"
    THEN [op |-> "issued", task |-> t, week |-> ctl'.allData[CurrentWeekKey]]
    ELSE NoRet

LostNext ==
    \/ /\ getTotalEntryCount(ctl.week) < MaxDayEntries
       /\ \E setItemOk \in BOOLEAN : handleEntrata(setItemOk)
       /\ last' = Issued(FreeTask)
       /\ LostFrame
    \/ /\ getTotalEntryCount(ctl.week) < MaxDayEntries
       /\ \E setItemOk \in BOOLEAN : handleUscita(setItemOk)
       /\ last' = Issued(FreeTask)
       /\ LostFrame
    \/ /\ \E setItemOk \in BOOLEAN : handleSmart(setItemOk)
       /\ last' = Issued(FreeTask)
       /\ LostFrame
    \/ /\ \E t \in 1..MaxTasks, confirm, setItemOk \in BOOLEAN :
             /\ ConfirmAnswered(t, confirm, setItemOk)
             /\ last' = Issued(t)
       /\ LostFrame
    \/ /\ \E file \in ImportFiles, getItemOk, setItemOk \in BOOLEAN :
             handleImport(file, getItemOk, setItemOk)
       /\ UNCHANGED last
       /\ LostFrame
    \/ /\ \E requestOk, getItemOk, setItemOk \in BOOLEAN :
             /\ TxnDone(requestOk, getItemOk, setItemOk)
             /\ last' = IF /\ last.op = "issued"
                           /\ last.task = Head(txns).task
                           /\ tasks[last.task].pc = "saving"
                        THEN IF requestOk THEN [op |-> "saved", week |-> last.week]
                             ELSE NoRet
                        ELSE last
       /\ LostFrame

SpecLost == LostInit /\ [][LostNext]_vars

UtilOnlyInit ==
    /\ UtilInit
    /\ calcEntries = <<>> /\ calcDate = 2 /\ calcResult = [pending |-> TRUE]
    /\ bus = NoBus
    /\ modal = NoModal
    /\ WkInit /\ StoreInit /\ CtlUnused

UtilNext ==
    \/ CalculateBalance /\ UNCHANGED <<weekVars, storeVars, ctlVars>>
    \/ InitializeWorkDays /\ UNCHANGED <<weekVars, storeVars, ctlVars>>
    \/ GetPreviousWeek /\ UNCHANGED <<weekVars, storeVars, ctlVars>>
    \/ GetNextWeek /\ UNCHANGED <<weekVars, storeVars, ctlVars>>
    \/ GetWeekNumber /\ UNCHANGED <<weekVars, storeVars, ctlVars>>
    \/ ForCurrentWeek /\ UNCHANGED <<weekVars, storeVars, ctlVars>>
    \/ ValidateWeekKey /\ UNCHANGED <<weekVars, storeVars, ctlVars>>
    \/ FromWeekKey /\ UNCHANGED <<weekVars, storeVars, ctlVars>>

SpecUtil == UtilOnlyInit /\ [][UtilNext]_vars

(***************************************************************************)
(* C1: no date holds both a special entry (smart/assente) and a clock      *)
(* entry (entrata/uscita): every date has no entries, exactly one special  *)
(* entry, or only clock entries.                                           *)
(***************************************************************************)
DayIsExclusive(s) ==
    \/ Len(s) = 0
    \/ Len(s) = 1 /\ isSpecial(s[1])
    \/ \A i \in 1..Len(s) : ~isSpecial(s[i])

C1_SpecialClockExclusive ==
    \A d \in DOMAIN entries : DayIsExclusive(entries[d])

(***************************************************************************)
(* C2: calculateDayHours deducts the 30-minute break on a Friday too: for  *)
(* a Friday whose clock pairs total more than 360 gross minutes, minutes = *)
(* gross - 30 and pauseApplied is true.                                    *)
(***************************************************************************)
CalcReturnedPairs == "grossMinutes" \in DOMAIN calcResult

C2_FridayBreakDeducted ==
    (CalcReturnedPairs /\ isFriday(calcDate) /\ calcResult.grossMinutes > 360)
        => /\ calcResult.minutes = calcResult.grossMinutes - PAUSE_MINUTES
           /\ calcResult.pauseApplied

(***************************************************************************)
(* C3: StorageManager.saveAllData(d) writes localStorage first and, when   *)
(* IndexedDB is in use, IndexedDB afterwards; it never throws; it returns  *)
(* false if a write failed; it returns true only if every write it         *)
(* attempted succeeded, and then every store it wrote holds exactly d.     *)
(***************************************************************************)
C3_SaveAllDataContract ==
    /\ (call.op = "saveAllData" /\ call.pc \in {"clear", "put"}) => call.lsW = "ok"
    /\ last.op = "saveAllData" =>
          /\ ~last.threw
          /\ last.lsW # "none"
          /\ last.idbW # "none" => last.lsW = "ok"
          /\ last.useIndexedDB => last.idbW # "none"
          /\ (last.lsW = "fail" \/ last.idbW = "fail") => last.ret = FALSE
          /\ last.ret = TRUE =>
                /\ last.lsW = "ok" /\ last.idbW # "fail"
                /\ STORAGE_KEY \in DOMAIN localStorage /\ LsAgg = last.data
                /\ last.idbW = "ok" => IdbAgg = last.data

(***************************************************************************)
(* C4 as claimed: loadAllData returns the IndexedDB aggregate when         *)
(* IndexedDB is in use and holds a week key, otherwise the localStorage    *)
(* aggregate; if any read fails it returns the empty aggregate.            *)
(***************************************************************************)
C4_LoadEmptyOnAnyReadFailure ==
    last.op = "loadAllData" =>
        last.ret = IF last.rd.idbR = "fail" \/ last.rd.lsR = "fail" THEN EmptyAgg
                   ELSE IF session.useIndexedDB /\ IdbAgg # EmptyAgg THEN IdbAgg
                   ELSE LsAgg

(***************************************************************************)
(* C4 amended: loadAllData returns the IndexedDB aggregate when IndexedDB  *)
(* is in use, its read succeeds and it holds a week key; otherwise (also   *)
(* when the IndexedDB read failed) the localStorage aggregate; the empty   *)
(* aggregate when that localStorage read fails.  It always returns an      *)
(* aggregate.                                                              *)
(***************************************************************************)
C4_LoadFallsBackToPrimary ==
    last.op = "loadAllData" =>
        /\ last.ret \in Aggregates
        /\ last.ret = IF session.useIndexedDB /\ last.rd.idbR = "ok" /\ IdbAgg # EmptyAgg
                      THEN IdbAgg
                      ELSE IF last.rd.lsR = "ok" THEN LsAgg
                      ELSE EmptyAgg

C4_Witness ==
    /\ last.op = "loadAllData"
    /\ last.rd.idbR = "fail"
    /\ IdbAgg # EmptyAgg
    /\ last.ret = LsAgg
    /\ LsAgg # EmptyAgg

(***************************************************************************)
(* C5: init() copies localStorage into IndexedDB only when IndexedDB is in *)
(* use, reported zero week keys and localStorage is non-empty; no step of  *)
(* init() changes localStorage; and an init() that follows an init() with  *)
(* IndexedDB already populated changes neither store.                      *)
(***************************************************************************)
C5_InitStep ==
    /\ (call.op = "none" /\ call'.op = "init") =>
          /\ session'.useIndexedDB
          /\ call'.ret = {}
          /\ call'.data = LsAgg /\ LsAgg # EmptyAgg
    /\ call.op = "init" =>
          /\ localStorage' = localStorage
          /\ (hist.inits >= 1 /\ idbWeeks # {}) => idbWeeks' = idbWeeks

C5_InitMigratesOnceOnly == [][C5_InitStep]_vars

(***************************************************************************)
(* C6: importData(payload, merge = true) keeps every stored week key with  *)
(* its previous payload, adds exactly the payload's absent keys, touches   *)
(* no other key, and returns imported = keys added, existing = payload     *)
(* keys already stored.  The stored aggregate is the one loadAllData       *)
(* reads: IndexedDB's when in use and non-empty, else localStorage's.      *)
(***************************************************************************)
StoredView(P, S) ==
    IF session.useIndexedDB /\ S # EmptyAgg THEN S
    ELSE IF session.lsAvailable THEN P
    ELSE EmptyAgg

C6_ImportMergeFrame ==
    (last.op = "importData" /\ last.arg.merge) =>
        LET before == StoredView(hist.P0, hist.S0)
            after == StoredView(LsAgg, IdbAgg)
            payload == last.arg.payload
            added == DOMAIN payload \ DOMAIN before
        IN  /\ DOMAIN after = DOMAIN before \cup DOMAIN payload
            /\ \A k \in DOMAIN before \cap DOMAIN after : after[k] = before[k]
            /\ \A k \in added \cap DOMAIN after : after[k] = payload[k]
            /\ last.ret.imported = Cardinality(added)
            /\ last.ret.existing = Cardinality(DOMAIN payload \cap DOMAIN before)

(***************************************************************************)
(* C9: when the page is closed at any point of a saveAllData(d), the       *)
(* stores hold, and a later loadAllData returns, the complete aggregate of *)
(* before the write or the complete d, never part of d or a mixture (the   *)
(* empty aggregate only as the result of a localStorage read that fails).  *)
(***************************************************************************)
C9_InterruptedSaveAllOrNothing ==
    hist.crashed =>
        /\ LsAgg \in {hist.P0, hist.d}
        /\ IdbAgg \in {hist.P0, hist.S0, hist.d}
        /\ last.op = "loadAllData" =>
              \/ last.ret \in {hist.P0, hist.S0, hist.d}
              \/ last.ret = EmptyAgg /\ last.rd.lsR = "fail"

C9_Witness ==
    /\ hist.crashed
    /\ last.op = "loadAllData"
    /\ LsAgg = hist.d
    /\ IdbAgg = hist.S0
    /\ DOMAIN hist.d = WeekKeys
    /\ hist.S0 \notin {EmptyAgg, hist.d}
    /\ last.ret = hist.S0

(***************************************************************************)
(* C10: when a write of its saveAllData failed, importData returns         *)
(* success = false and restoreLastBackup returns null.                     *)
(***************************************************************************)
C10_WriteFailureReported ==
    /\ (last.op = "importData" /\ (last.lsW = "fail" \/ last.idbW = "fail"))
          => last.ret.success = FALSE
    /\ (last.op = "restoreLastBackup" /\ (last.lsW = "fail" \/ last.idbW = "fail"))
          => last.ret = <<>>

(***************************************************************************)
(* C7: whenever no createBackup is running, the backup log holds at most   *)
(* 10 records and they are the 10 most recent by timestamp of all records  *)
(* ever added; after exactly 11 added records exactly 10 remain and the    *)
(* deleted one is the oldest.                                              *)
(***************************************************************************)
C7_BackupRotation ==
    call.pc = "idle" =>
        /\ Cardinality(idbBackups) = Min(Cardinality(bkLog), MAX_BACKUPS)
        /\ \A b \in idbBackups, x \in bkLog \ idbBackups : x.timestamp <= b.timestamp

(***************************************************************************)
(* C8: the controller issues a storage call only after the previous one    *)
(* has completed: at most one callback is waiting for a storage call, and  *)
(* at most one transaction on the stored aggregate is unfinished.          *)
(***************************************************************************)
C8_StorageCallsSerialized ==
    /\ Cardinality({t \in DOMAIN tasks :
                      tasks[t].pc \in {"saving", "importRead", "importSave", "importReload"}})
          <= 1
    /\ Len(txns) <= 1

(***************************************************************************)
(* C11: a store that failed its availability probe is not used and is not  *)
(* fatal: with localStorage unavailable and IndexedDB in use, saveAllData  *)
(* persists the aggregate to IndexedDB (unless that write itself fails)    *)
(* and loadAllData returns it; with IndexedDB not in use, reads and writes *)
(* touch localStorage alone.                                               *)
(***************************************************************************)
C11_UnavailableStoreNotFatal ==
    /\ last.op = "saveAllData" =>
          /\ (~session.lsAvailable /\ last.useIndexedDB /\ last.idbW # "fail")
                => IdbAgg = last.data
          /\ ~last.useIndexedDB => last.idbW = "none"
    /\ last.op = "loadAllData" =>
          /\ (~session.lsAvailable /\ session.useIndexedDB /\ last.rd.idbR = "ok")
                => last.ret = IdbAgg
          /\ ~session.useIndexedDB => last.rd.idbR = "none"

(***************************************************************************)
(* C12: when validateImportData reports a structural error, handleImport   *)
(* refuses the file and both stores, the controller's data and the queue   *)
(* of storage calls are as before; when it reports warnings only, valid is *)
(* true, importData gets the file's data as given, and once the import has *)
(* saved, every week key that no store held holds the file's payload,      *)
(* malformed entries included.                                             *)
(***************************************************************************)
C12_ImportValidation ==
    (last.op = "handleImport" /\ last.validation # <<>>) =>
        LET v == last.validation[1]
            payload == last.result.data
            after == IF session.useIndexedDB /\ IdbAgg # EmptyAgg THEN IdbAgg ELSE LsAgg
            finished == \A t \in DOMAIN tasks : tasks[t].pc = "idle"
        IN  /\ v.errors # {} =>
                  /\ ~v.valid
                  /\ ~last.result.success
                  /\ LsAgg = hist.P0 /\ IdbAgg = hist.S0
                  /\ finished /\ txns = <<>>
                  /\ ctl.toast.kind = "error"
            /\ (v.errors = {} /\ v.warnings # {}) =>
                  /\ v.valid
                  /\ last.result.success
                  /\ payload = ImportedData(last.file.data)
                  /\ (finished /\ ctl.toast = [kind |-> "success", saved |-> TRUE]) =>
                        \A k \in DOMAIN payload \ (DOMAIN hist.P0 \cup DOMAIN hist.S0) :
                            k \in DOMAIN after /\ after[k] = payload[k]

C12_Witness ==
    /\ last.op = "handleImport"
    /\ last.validation # <<>>
    /\ last.validation[1].warnings # {}
    /\ \A t \in DOMAIN tasks : tasks[t].pc = "idle"
    /\ ctl.toast = [kind |-> "success", saved |-> TRUE]
    /\ session.useIndexedDB
    /\ "2026-W05" \in DOMAIN IdbAgg
    /\ CurrentWeekKey \in DOMAIN IdbAgg
    /\ \E i \in 1..Len(IdbAgg["2026-W05"][5]) : ~validateEntry(IdbAgg["2026-W05"][5][i])

(***************************************************************************)
(* C13: in the stale-data flow a backup is stored before cleanOldData      *)
(* runs: every week key that checkOldData removed from a store is in the   *)
(* data of the backup record that its createBackup() stored.               *)
(***************************************************************************)
C13_CleanOnlyAfterBackup ==
    last.op = "checkOldData" =>
        LET removed == (DOMAIN hist.P0 \ DOMAIN LsAgg) \cup (DOMAIN hist.S0 \ DOMAIN IdbAgg)
        IN  removed # {} =>
                \E b \in idbBackups : b.id = last.backupId /\ removed \subseteq DOMAIN b.data

(***************************************************************************)
(* C14: cleanOldData(keys) returns the number of keys that were stored     *)
(* before the call and are not stored after it; keys that were not stored  *)
(* and deletions whose write failed are not counted.                       *)
(***************************************************************************)
C14_CleanCountsRemoved ==
    last.op = "cleanOldData" =>
        LET before == StoredView(hist.P0, hist.S0)
            after == StoredView(LsAgg, IdbAgg)
        IN  last.deleted =
                Cardinality({k \in {last.keys[i] : i \in 1..Len(last.keys)} :
                                k \in DOMAIN before /\ k \notin DOMAIN after})


(***************************************************************************)
(* C15: every TimeEntry of the week, after construction and after any      *)
(* updates, has hours non-null exactly when its type is smart/assente and  *)
(* time non-null only when its type is entrata/uscita.                     *)
(***************************************************************************)
C15_TimeHoursByType ==
    \A d \in DOMAIN entries : \A i \in 1..Len(entries[d]) :
        LET e == entries[d][i]
        IN  /\ (e.hours # Null) <=> isSpecialType(e.type)
            /\ (e.time # Null) => requiresTime(e.type)

(***************************************************************************)
(* C16: every serialized entry (TimeEntry.toJSON through WeekData.toJSON)  *)
(* has a time field only for entrata/uscita and an hours field only for    *)
(* smart/assente, also after updateEntry changed the entry's type.         *)
(***************************************************************************)
C16_SerializedFieldsByType ==
    LET json == WeekToJSON(entries)
    IN  \A d \in DOMAIN json : \A i \in 1..Len(json[d]) :
            /\ (json[d][i].time # Undef) => requiresTime(json[d][i].type)
            /\ (json[d][i].hours # Undef) => isSpecialType(json[d][i].type)


(***************************************************************************)
(* C17: addEntry of a smart entry on a Friday stores hours = 6 whatever    *)
(* hours it was constructed with; on another working day the supplied      *)
(* hours are kept.                                                         *)
(***************************************************************************)
C17_FridaySmartHours ==
    (last.op = "addEntry" /\ last.arg.type = "smart") =>
        LET list == entries[last.date]
            added == list[Len(list)]
        IN  /\ added.id = wkLast.ret
            /\ added.type = "smart"
            /\ isFriday(last.date) => added.hours = SMART_HOURS_FRIDAY
            /\ (~isFriday(last.date) /\ last.arg.hours \notin {Null, Undef})
                  => added.hours = last.arg.hours

\* a smart entry built with 4 hours was added on Friday and is stored with 6
C17_Witness ==
    /\ last.op = "addEntry"
    /\ last.date = 6
    /\ last.arg = [type |-> "smart", time |-> Undef, hours |-> 40]
    /\ Len(entries[6]) = 1
    /\ entries[6][1].hours = SMART_HOURS_FRIDAY

(***************************************************************************)
(* C18: after addEntry(date, e) with e smart or assente the date holds     *)
(* exactly e, whatever it held before and whether or not the date was a    *)
(* key; the entries of every other date are unchanged.                     *)
(***************************************************************************)
C18_SpecialAddReplaces ==
    (last.op = "addEntry" /\ isSpecialType(last.arg.type)) =>
        /\ Len(getEntriesForDate(entries, last.date)) = 1
        /\ entries[last.date][1].id = wkLast.ret
        /\ entries[last.date][1].type = last.arg.type
        /\ \A o \in (DOMAIN entries \cup DOMAIN last.before) \ {last.date} :
              getEntriesForDate(entries, o) = getEntriesForDate(last.before, o)

\* a special entry was added on a date that held two entries, while another
\* date held entries too
C18_Witness ==
    /\ last.op = "addEntry"
    /\ isSpecialType(last.arg.type)
    /\ Len(getEntriesForDate(last.before, last.date)) = MaxEntries
    /\ Len(entries[last.date]) = 1

\* a special entry was added on a date that was not a key
C18_WitnessNewDate ==
    /\ last.op = "addEntry"
    /\ isSpecialType(last.arg.type)
    /\ last.date \notin DOMAIN last.before
    /\ getTotalEntryCount(last.before) > 0
    /\ Len(entries[last.date]) = 1

(***************************************************************************)
(* C19: updateEntry that changes a non-special entry's type to smart or    *)
(* assente leaves the date with exactly the updated entry (same id) and    *)
(* leaves every other date untouched.                                      *)
(***************************************************************************)
C19_UpdateToSpecialKeepsOne ==
    (/\ last.op = "updateEntry"
     /\ IndexFound(last.before, last.date, last.index)
     /\ isSpecialType(last.arg.type)
     /\ ~isSpecial(last.before[last.date][last.index + 1])) =>
        /\ Len(entries[last.date]) = 1
        /\ entries[last.date][1].id = last.before[last.date][last.index + 1].id
        /\ entries[last.date][1].type = last.arg.type
        /\ wkLast.ret = entries[last.date][1].id
        /\ DOMAIN entries = DOMAIN last.before
        /\ \A o \in DOMAIN entries \ {last.date} : entries[o] = last.before[o]

\* the second of two clock entries of a date was changed to a special type
C19_Witness ==
    /\ last.op = "updateEntry"
    /\ last.index = 1
    /\ isSpecialType(last.arg.type)
    /\ Len(getEntriesForDate(last.before, last.date)) = 2
    /\ ~isSpecial(last.before[last.date][2])
    /\ Len(entries[last.date]) = 1

(***************************************************************************)
(* C20: updateEntry and deleteEntry with a date that is not a key or an    *)
(* index outside 0..length-1 return null and change no date's entries;     *)
(* deleteEntry with a valid index removes exactly that entry, keeps the    *)
(* order of the others and returns the removed entry.                      *)
(***************************************************************************)
C20_NotFoundAndDelete ==
    LET found == IndexFound(last.before, last.date, last.index)
        was == last.before[last.date]
        is == entries[last.date]
    IN  /\ (last.op \in {"updateEntry", "deleteEntry"} /\ ~found) =>
              (wkLast.ret = Null /\ entries = last.before)
        /\ (last.op = "deleteEntry" /\ found) =>
              /\ wkLast.ret = was[last.index + 1].id
              /\ Len(is) = Len(was) - 1
              /\ \A j \in 1..Len(is) : is[j] = was[IF j <= last.index THEN j ELSE j + 1]
              /\ DOMAIN entries = DOMAIN last.before
              /\ \A o \in DOMAIN entries \ {last.date} : entries[o] = last.before[o]

\* the first of two entries of a date was deleted
C20_Witness ==
    /\ last.op = "deleteEntry"
    /\ last.index = 0
    /\ Len(getEntriesForDate(last.before, last.date)) = 2
    /\ Len(entries[last.date]) = 1
    /\ entries[last.date][1] = last.before[last.date][2]

\* a call with a date that is not a key, and one with an index past the end
C20_WitnessNotFound ==
    /\ last.op \in {"updateEntry", "deleteEntry"}
    /\ \/ last.date \notin DOMAIN last.before
       \/ (last.date \in DOMAIN last.before /\ last.index = Len(last.before[last.date])
           /\ last.index > 0)
    /\ wkLast.ret = Null


(***************************************************************************)
(* C21: for a day that is not a single special entry the gross minutes are *)
(* the sum over the first min(#entrata, #uscita) pairs, each type in       *)
(* recorded order, of the strictly positive differences uscita - entrata,  *)
(* and hasIncomplete is true exactly when there are more entrata than      *)
(* uscita.                                                                 *)
(***************************************************************************)
\* minutes of the i-th pair onwards, counted when both times are there and
\* the difference is positive
RECURSIVE PositivePairSum(_, _, _)
PositivePairSum(ins, outs, i) ==
    IF i > Len(ins) \/ i > Len(outs) THEN 0
    ELSE LET a == ins[i].time
             b == outs[i].time
             diff == ((b \div 100) * 60 + (b % 100)) - ((a \div 100) * 60 + (a % 100))
         IN  (IF a # Null /\ b # Null /\ diff > 0 THEN diff ELSE 0)
             + PositivePairSum(ins, outs, i + 1)

C21_GrossIsPairSum ==
    LET ins == SelectSeq(calcEntries, LAMBDA e : e.type = "entrata")
        outs == SelectSeq(calcEntries, LAMBDA e : e.type = "uscita")
        singleSpecial == Len(calcEntries) = 1 /\ calcEntries[1].type \in SPECIAL_TYPES
    IN  ("pending" \notin DOMAIN calcResult /\ ~singleSpecial) =>
            /\ calculatePairMinutes(calcEntries).workedMinutes = PositivePairSum(ins, outs, 1)
            /\ calcResult.hasIncomplete = (Len(ins) > Len(outs))
            /\ IF Len(calcEntries) = 0
               THEN calcResult.minutes = 0
               ELSE calcResult.grossMinutes = PositivePairSum(ins, outs, 1)

\* uscita, entrata 08:00, entrata, uscita 17:00 ... : two entrata and two
\* uscita not alternating, the first pair positive and the second not
C21_Witness ==
    /\ "grossMinutes" \in DOMAIN calcResult
    /\ Len(calcEntries) = 4
    /\ calcEntries[1] = [type |-> "entrata", time |-> 800, hours |-> Undef]
    /\ calcEntries[2] = [type |-> "entrata", time |-> 1700, hours |-> Undef]
    /\ calcEntries[3] = [type |-> "uscita", time |-> 1401, hours |-> Undef]
    /\ calcEntries[4] = [type |-> "uscita", time |-> 1400, hours |-> Undef]
    /\ calcResult.grossMinutes = 361

\* three entrata and one uscita: one pair counted, the day incomplete
C21_WitnessIncomplete ==
    /\ "grossMinutes" \in DOMAIN calcResult
    /\ Len(SelectSeq(calcEntries, LAMBDA e : e.type = "entrata")) = 3
    /\ calcResult.hasIncomplete
    /\ calcResult.grossMinutes = 540

C22_WitnessOver ==
    /\ calcDate = 2
    /\ CalcReturnedPairs
    /\ calcResult.pauseApplied
    /\ \/ calcResult.grossMinutes = 361 /\ calcResult.minutes = 331
       \/ Len(calcEntries) = 4 /\ calcResult.grossMinutes = 539 /\ calcResult.minutes = 509

(***************************************************************************)
(* C28: with two clock-in/clock-out pairs on a day of more than 6 gross    *)
(* hours the deduction is based on the real break between the pairs:       *)
(* nothing when the break is at least 30 minutes, otherwise 30 minus the   *)
(* real break.  Checked on Monday to Thursday dates; what a Friday deducts  *)
(* is C2's subject.                                                        *)
(***************************************************************************)
C28_RealBreakDeduction ==
    (/\ CalcReturnedPairs
     /\ getDay(calcDate) \in 1..4
     /\ Len(calcEntries) = 4
     /\ \A i \in 1..4 : calcEntries[i].type = (IF i % 2 = 1 THEN "entrata" ELSE "uscita")
     /\ \A i \in 1..4 : calcEntries[i].time # Null
     /\ \A i \in 1..3 : calcEntries[i].time < calcEntries[i + 1].time
     /\ calcResult.grossMinutes > 360) =>
        LET realBreak == parseTimeToMinutes(calcEntries[3].time)
                         - parseTimeToMinutes(calcEntries[2].time)
        IN  calcResult.minutes = calcResult.grossMinutes - Max(0, 30 - realBreak)


(***************************************************************************)
(* C23: calculateBalance(m) returns minutes = m - 2160, exactly one of     *)
(* isPositive, isNegative, isNeutral (isNeutral only for 0), and a string  *)
(* that starts with '+' when the balance is not negative and with '-'      *)
(* when it is negative, followed by the absolute value as HH:MM.           *)
(***************************************************************************)
C23_BalanceSignAndText ==
    (util.name = "calculateBalance" /\ util.done) =>
        LET r == util.ret
            b == util.arg - 2160
            a == IF b < 0 THEN -b ELSE b
            digit == <<"0", "1", "2", "3", "4", "5", "6", "7", "8", "9">>
        IN  /\ r.minutes = b
            /\ r.isPositive = (b > 0)
            /\ r.isNegative = (b < 0)
            /\ r.isNeutral = (b = 0)
            /\ Cardinality({f \in {"isPositive", "isNegative", "isNeutral"} : r[f]}) = 1
            /\ r.formatted = <<IF b < 0 THEN "-" ELSE "+",
                               digit[((a \div 60) \div 10) + 1], digit[((a \div 60) % 10) + 1],
                               ":",
                               digit[((a % 60) \div 10) + 1], digit[((a % 60) % 10) + 1]>>

\* calculateBalance(2000): -160 minutes, "-02:40"
C23_Witness ==
    /\ util.name = "calculateBalance"
    /\ util.done
    /\ util.arg = 2000
    /\ util.ret.isNegative
    /\ util.ret.formatted = <<"-", "0", "2", ":", "4", "0">>

\* calculateBalance(2160): neutral, "+00:00"
C23_WitnessNeutral ==
    /\ util.name = "calculateBalance"
    /\ util.done
    /\ util.arg = 2160
    /\ util.ret.isNeutral
    /\ util.ret.formatted = <<"+", "0", "0", ":", "0", "0">>


(***************************************************************************)
(* C24: a WeekData constructed for a valid ISO (year, week) has as keys    *)
(* exactly the dates of the Monday to Friday of that ISO week, for every   *)
(* local time-zone offset of the runtime.                                  *)
(***************************************************************************)
\* the Monday of ISO week (year, week): the Monday whose Thursday is the
\* week-th Thursday of the year
IsoMonday(year, week) ==
    CHOOSE m \in (DaysBeforeYear(year) - 7)..(DaysBeforeYear(year + 1) + 7) :
        /\ m % 7 = 0
        /\ DaysBeforeYear(year) <= m + 3
        /\ m + 3 < DaysBeforeYear(year + 1)
        /\ ((m + 3 - DaysBeforeYear(year)) \div 7) + 1 = week

C24_WorkDayKeys ==
    (util.name = "WeekData" /\ util.done) =>
        util.ret = {IsoMonday(util.arg.year, util.arg.week) + i : i \in 0..4}

(***************************************************************************)
(* C25: getNextWeek(y, w) is (y+1, 1) exactly when w is the last ISO week  *)
(* of y (52 or 53, as computed from Dec 28) and (y, w+1) otherwise;        *)
(* getPreviousWeek(y, 1) is (y-1, last ISO week of y-1) and (y, w-1)       *)
(* otherwise; on the valid ISO weeks the two are inverse of each other.    *)
(***************************************************************************)
\* an ISO year has 53 weeks when it starts on a Thursday, or on a Wednesday
\* and is a leap year; day 0 is a Monday
IsoWeeksInYear(year) ==
    LET jan1 == DaysBeforeYear(year) % 7
        leap == DaysBeforeYear(year + 1) - DaysBeforeYear(year) = 366
    IN  IF jan1 = 3 \/ (jan1 = 2 /\ leap) THEN 53 ELSE 52

C25_WitnessPrevious ==
    /\ util.name = "getPreviousWeek"
    /\ util.done
    /\ util.arg = [year |-> 2021, week |-> 1]
    /\ util.ret = [year |-> 2020, week |-> 53]

(***************************************************************************)
(* C26: for every calendar date d the week number is in 1..53, the week    *)
(* containing January 4 of a year is week 1 of that year, and d lies       *)
(* within the seven days that start at                                     *)
(* getWeekStartDate(getWeekYear(d), getWeekNumber(d)), a Monday.           *)
(***************************************************************************)
C26_IsoWeekNumbering ==
    (util.name = "getWeekNumber" /\ util.done) =>
        LET d == util.arg
            start == getWeekStartDate(util.ret.year, util.ret.week) \div 24
        IN  /\ util.ret.week \in 1..53
            /\ \A y \in (FirstYear - 1)..(LastYear + 1) :
                  LET jan4 == DaysBeforeYear(y) + 3
                  IN  (d - (d % 7) = jan4 - (jan4 % 7))
                          => (util.ret.week = 1 /\ util.ret.year = y)
            /\ start <= d
            /\ d <= start + 6
            /\ start % 7 = 0
            /\ getWeekStartDate(util.ret.year, util.ret.week) % 24 = 0

\* 2027-01-01, a Friday, is in week 53 of 2026
C26_Witness ==
    /\ util.name = "getWeekNumber"
    /\ util.done
    /\ util.arg = DaysBeforeYear(2027)
    /\ util.ret = [week |-> 53, year |-> 2026]

\* 2018-12-31, a Monday, is in week 1 of 2019
C26_WitnessNextYear ==
    /\ util.name = "getWeekNumber"
    /\ util.done
    /\ util.arg = DaysBeforeYear(2019) - 1
    /\ util.ret = [week |-> 1, year |-> 2019]

(***************************************************************************)
(* C27: handleUscita adds an uscita to today only when today holds more    *)
(* clock-ins than clock-outs and is not a special day; in every other      *)
(* state it shows a warning and leaves today's entries as they were,       *)
(* whatever presses, edits and deletions came before.                      *)
(***************************************************************************)
C27_UscitaOnlyWhenOpen ==
    last.op = "handleUscita" =>
        LET before == last.before
            after == getEntriesForDate(ctl.week, Today)
            entrate == Cardinality({i \in 1..Len(before) : before[i].type = "entrata"})
            uscite == Cardinality({i \in 1..Len(before) : before[i].type = "uscita"})
            special == Len(before) = 1 /\ isSpecial(before[1])
        IN  IF entrate > uscite /\ ~special
            THEN /\ Len(after) = Len(before) + 1
                 /\ SubSeq(after, 1, Len(before)) = before
                 /\ after[Len(after)].type = "uscita"
            ELSE /\ after = before
                 /\ ctl.toast.kind = "warning"

(***************************************************************************)
(* C29: the callback of a listener registered with the once option has run *)
(* at most once, and once it has run its wrapper is no longer registered,  *)
(* whatever the other options of on() and whatever emits came before and   *)
(* after.                                                                  *)
(***************************************************************************)
C29_OnceRunsOnce ==
    \A i \in DOMAIN bus.runs :
        bus.runs[i].once =>
            /\ bus.runs[i].count <= 1
            /\ bus.runs[i].count = 1 => i \notin bus.listeners

(***************************************************************************)
(* C30: read-your-writes.  After the most recent write call ran to its end *)
(* with its localStorage write done (localStorage went from another value  *)
(* to the aggregate d of the call and no reload interrupted the call), a   *)
(* loadAllData none of whose reads failed returns d, in the session of the *)
(* write and in later ones, whatever became of the IndexedDB write and     *)
(* whether or not IndexedDB opens in the session of the load.              *)
(***************************************************************************)
C30_ReadYourWrites ==
    (/\ last.op = "loadAllData"
     /\ last.rd.idbR # "fail"
     /\ last.rd.lsR # "fail"
     /\ ~hist.crashed
     /\ hist.P0 # hist.d
     /\ LsAgg = hist.d)
        => last.ret = hist.d

(***************************************************************************)
(* C31: saveWeekData(k, w) and deleteWeekData(k) leave every other week of *)
(* the primary aggregate as it was: a week key other than k that           *)
(* localStorage held before the call is held with the same payload after   *)
(* it, whatever the reads of the call returned and whatever IndexedDB      *)
(* held.                                                                   *)
(***************************************************************************)
C31_OtherWeeksKept ==
    last.op \in {"saveWeekData", "deleteWeekData"} =>
        \A k \in DOMAIN last.before \ {last.key} :
            /\ k \in DOMAIN LsAgg
            /\ LsAgg[k] = last.before[k]

(***************************************************************************)
(* C32: a week serialised with toJSON and built again with                 *)
(* WeekData.fromWeekKey(weekKey, json) serialises to the same JSON: the    *)
(* same date keys, and for each the same entries in the same order with    *)
(* the same type, time and hours.                                          *)
(***************************************************************************)
C32_JsonRoundTrip ==
    WeekToJSON(NewWeekData(WeekToJSON(entries))) = WeekToJSON(entries)

(***************************************************************************)
(* C33: at most one modal is open, and the promise of every open*Modal     *)
(* call is resolved when the modal it opened is closed, not before, with   *)
(* the result that modal was closed with, also when another modal was      *)
(* opened while it was active.  (A promise is resolved inside close(), so  *)
(* "eventually once closed" is "closed implies resolved" in every state.)  *)
(***************************************************************************)
C33_ModalPromiseResolved ==
    /\ Cardinality(modal.isOpen) <= 1
    /\ \A p \in DOMAIN modal.promises :
          LET q == modal.promises[p]
          IN  /\ q.closed # <<>> <=> q.resolved # <<>>
              /\ q.closed # <<>> => q.resolved = <<ResolverValue(q.name, q.closed[1])>>


(***************************************************************************)
(* C34: no lost update.  Once the save of an entry recorded through a      *)
(* controller handler has completed, and every import running beside it    *)
(* has finished, the week with that entry is what both stores hold and     *)
(* what the controller holds in memory.                                    *)
(***************************************************************************)
C34_NoLostUpdate ==
    (last.op = "saved" /\ Quiet) =>
        /\ CurrentWeekKey \in DOMAIN IdbAgg /\ IdbAgg[CurrentWeekKey] = last.week
        /\ CurrentWeekKey \in DOMAIN LsAgg /\ LsAgg[CurrentWeekKey] = last.week
        /\ CurrentWeekKey \in DOMAIN ctl.allData /\ ctl.allData[CurrentWeekKey] = last.week
        /\ WeekToJSON(ctl.week) = last.week


(***************************************************************************)
(* C35: the week WeekData.forCurrentWeek() builds has the week key of      *)
(* today, getWeekKey(today): the ISO week-year and the ISO week number of  *)
(* today, also on the days around New Year whose ISO week-year is not      *)
(* their calendar year.                                                    *)
(***************************************************************************)
C35_CurrentWeekKey ==
    (util.name = "forCurrentWeek" /\ util.done) =>
        util.ret.weekKey = getWeekKey(util.arg)


(***************************************************************************)
(* C36: a week key that validateWeekKey accepts, and a week key that       *)
(* parseWeekKey parses, names a week number between 1 and 53, so the       *)
(* WeekData built from it by fromWeekKey has a week between 1 and 53.      *)
(***************************************************************************)
C36_WeekNumberInRange ==
    /\ (util.name = "validateWeekKey" /\ util.done /\ util.ret.valid) =>
          10 * DigitValue[util.arg[7]] + DigitValue[util.arg[8]] \in 1..53
    /\ (util.name = "fromWeekKey" /\ util.done /\ ~util.ret.threw) =>
          util.ret.week \in 1..53

====
